---- MODULE Spec2Model ----
(***************************************************************************)
(* A model of BlockCache (crypt0walker/BlockCache): the single-flight      *)
(* coordinator, the lock-guarded LRU store, the group layer and the        *)
(* write-synchronisation protocol between peer nodes.                      *)
(*                                                                         *)
(* Each component has its own specification over its own variables; the    *)
(* variables of the other components are held at their initial values.     *)
(*   SpecSF       singleflight.Group.Do and DoChan                         *)
(*   SpecSFChan   DoChan callers only, their goroutines scheduled fairly   *)
(*   SpecCluster  Group.Set / Group.Delete, syncToPeers and the Servers of *)
(*                three nodes                                              *)
(*   SpecLRU      store.lruCache over a pointer-level container/list       *)
(*   SpecLRUFair  SpecLRU with the goroutines of Get's "go c.Delete(key)"  *)
(*                scheduled fairly                                         *)
(*   SpecGroup    one Group: Get, Set, Delete, Clear, Close and its        *)
(*                registry entry                                           *)
(*   SpecRoute    Group.Get on three nodes after Set and its sync, from a  *)
(*                client of the node and from Server.Get                   *)
(*   SpecPicker   one ClientPicker against the registrations of the        *)
(*                coordination store                                       *)
(*   SpecServer   Server.Start, Server.Stop and registry.Register on three *)
(*                nodes, the goroutines scheduled fairly                   *)
(*   SpecView     ByteView over a heap of byte buffers: Set, Get,          *)
(*                ByteSlice and writes by the application                  *)
(*   SpecLRUClose the store with writers, the reaper loop and callers of   *)
(*                Close, the loop scheduled fairly                         *)
(*   SpecClusterStable  SpecCluster without watch events and lost requests *)
(*   SpecRegistry the registry of groups: NewGroup, Group.Close,           *)
(*                DestroyGroup and DestroyAllGroups, scheduled fairly      *)
(***************************************************************************)
EXTENDS Integers, Sequences, FiniteSets

(***************************************************************************)
(* Variables of the single-flight coordinator (singleflight.Group).        *)
(***************************************************************************)
VARIABLES
    sfM,          \* g.m : key -> the call record installed for it (0: none)
    sfWg,         \* call.wg : call record -> WaitGroup counter
    sfRes,        \* call.val, call.err : call record -> result slot
    sfPc,         \* caller -> position inside Do
    sfKey,        \* caller -> the key it passed to Do
    sfCall,       \* caller -> the call record c it holds
    sfRet,        \* caller -> the (value, error) pair Do returned
    sfFnCalls,    \* key -> number of times fn was invoked for it
    sfDuring,     \* caller -> whether a call for its key was executing fn
                  \*           when the caller took the map lock (history)
    sfMode,       \* caller -> whether it called Do or DoChan
    sfChan,       \* caller -> the Results buffered in the channel DoChan made
    sfSent,       \* caller -> number of Results sent on its channel (history)
    sfLate        \* caller -> whether, when it took the map lock, a caller of
                  \*           the call it found had already returned (history)

sfVars == <<sfM, sfWg, sfRes, sfPc, sfKey, sfCall, sfRet, sfFnCalls, sfDuring,
            sfMode, sfChan, sfSent, sfLate>>

(***************************************************************************)
(* Variables of the cluster: three nodes, each hosting the same group      *)
(* behind a Server, with a ClientPicker over the other nodes.              *)
(***************************************************************************)
VARIABLES
    clCache,      \* node -> (key -> value held by the group's mainCache)
    clRing,       \* node -> addresses in the picker's consHash
    clClients,    \* node -> addresses in the picker's clients map
    clHosted,     \* node -> whether GetGroup(name) finds the group there
    clTasks,      \* goroutines launched by "go g.syncToPeers(...)"
    clRpcs,       \* requests sent by Client.Set / Client.Delete, in flight
    clOps,        \* number of client-originated operations so far
    clOrigin,     \* client operation -> what was called, and where (history)
    clSent,       \* client operation -> the RPCs sent on its account (history)
    clSynced,     \* client operation -> outcome of its own syncToPeers (history)
    clSrvSeen,    \* isPeerRequest values seen by a Group.Set or Group.Delete
                  \* that a Server handler delegated to (history)
    clPeerSyncs,  \* op -> syncs launched by a server-delegated Group call (history)
    clEvents      \* number of watch events handled so far

clVars == <<clCache, clRing, clClients, clHosted, clTasks, clRpcs, clOps,
            clOrigin, clSent, clSynced, clSrvSeen, clPeerSyncs, clEvents>>

(***************************************************************************)
(* Variables of the LRU store (store.lruCache) and its container/list.     *)
(***************************************************************************)
VARIABLES
    lruMax,       \* c.maxBytes
    lruCbOn,      \* whether c.onEvicted is configured (not nil)
    lruUsed,      \* c.usedBytes
    lruLL,        \* c.ll : next, prev and list pointers of the elements
                  \*        (element 0 is l.root), and l.len
    lruEnt,       \* element -> the *lruEntry in its Value
    lruAlloc,     \* number of list elements allocated by PushBack so far
    lruItems,     \* c.items : key -> element
    lruExp,       \* c.expiredTime : key -> time
    lruNow,       \* time.Now()
    lruGets,      \* Gets between c.mu.RUnlock() and c.mu.Lock(): (key, ele)
    lruPend,      \* key -> goroutines "go c.Delete(key)" that have not run yet
    lruLast,      \* the Set, Get, Delete or Clear that ran last, if no other operation ran and
                  \* no time passed since, and what it returned (history)
    lruCb,        \* the onEvicted calls made by the last operation (history)
    lruHist,      \* key -> how its time-to-live was last written (history)
    lruTickerOn,  \* whether c.cleanupTicker has not been stopped
    lruStopCloses,\* number of close(c.stopCleanup) executed; a second one panics
    lruOnce,      \* c.stopOnce: "fresh", "running" (inside Do) or "done"
    lruLoop,      \* cleanupLoop: at its "select", holding a "tick", or "returned"
    lruClosePc,   \* caller of Close -> "idle", "inOnce" or "done"
    lruLateReaps  \* entries removed by the reaper after a Close returned (history)

lruCloseVars == <<lruTickerOn, lruStopCloses, lruOnce, lruLoop, lruClosePc, lruLateReaps>>

lruVars == <<lruMax, lruCbOn, lruUsed, lruLL, lruEnt, lruAlloc, lruItems, lruExp,
             lruNow, lruGets, lruPend, lruLast, lruCb, lruHist, lruCloseVars>>

(***************************************************************************)
(* Variables of one Group on one node, its registry entry and its callers. *)
(***************************************************************************)
VARIABLES
    grClosed,     \* g.closed
    grRegistered, \* whether groups[g.name] is g
    grHasPeers,   \* whether g.peers is set
    grCache,      \* g.mainCache : key -> value
    grCacheCloses,\* number of calls of g.mainCache.Close() (history)
    grRegDeletes, \* number of delete(groups, g.name) made by Close (history)
    grFlight,     \* g.loader : key -> the caller whose load is in flight
    grFlightRes,  \* caller -> the result of the load it led
    grStats,      \* g.stats
    grTasks,      \* goroutines "go g.syncToPeers(...)" that have not run yet
    grThread      \* caller -> the operation it called, its position in it,
                  \*           what it returned and what it did (history)

grVars == <<grClosed, grRegistered, grHasPeers, grCache, grCacheCloses,
            grRegDeletes, grFlight, grFlightRes, grStats, grTasks, grThread>>

(***************************************************************************)
(* Variables of the read path of the cluster: Group.Get on each node, as   *)
(* called by the application and by Server.Get.                            *)
(***************************************************************************)
VARIABLES
    rdStats,      \* node -> g.stats of the group on that node
    rdCount,      \* number of Group.Get calls so far
    rdLast        \* the last Group.Get call: where, for what, how it ended, and
                  \* the Set that had been made and synced before it (history)

rdVars == <<rdStats, rdCount, rdLast>>

(***************************************************************************)
(* Variables of one ClientPicker and of the coordination store it watches. *)
(***************************************************************************)
VARIABLES
    pkStore,      \* addresses registered under "/services/<svc>/"
    pkStarted,    \* whether fetchAllServices has run and the watch is open
    pkClients,    \* p.clients : address -> client (0: no entry)
    pkRing,       \* node-ids in p.consHash
    pkMade,       \* the clients NewClient has returned: client -> its address
    pkClosed,     \* the clients on which Close was called
    pkQueue,      \* events sent by the watch and not handled yet
    pkEvents,     \* number of changes of the store so far
    pkGone,       \* addresses whose last handled event was a delete (history)
    pkSeen        \* kinds of events handled so far (history)

pkVars == <<pkStore, pkStarted, pkClients, pkRing, pkMade, pkClosed, pkQueue,
            pkEvents, pkGone, pkSeen>>

(***************************************************************************)
(* Variables of the Servers and of their registration tasks.               *)
(***************************************************************************)
VARIABLES
    svPc,         \* node -> where its Server is: new, serving, stopped
    svStopCh,     \* node -> whether s.stopCh is closed
    svReg,        \* node -> position of registry.Register and of its goroutine
    svRegStop,    \* node -> whether the stopCh handed to Register is closed
    svCli,        \* node -> whether the client made by Register is open
    svLease,      \* node -> the lease granted to Register
    svKey,        \* node -> whether "/services/<svc>/<addr>" is in the store
    svAlive       \* node -> keepalive responses taken by the goroutine, counted
                  \*         modulo MaxKeepAlives + 1 (the loop has no end)

svVars == <<svPc, svStopCh, svReg, svRegStop, svCli, svLease, svKey, svAlive>>

(***************************************************************************)
(* Variables of the byte buffers behind ByteView: the slices of the        *)
(* application and of the getter, and the views held by a group's cache.   *)
(***************************************************************************)
VARIABLES
    bvHeap,       \* buffer -> its bytes (the backing array of a []byte)
    bvNext,       \* number of buffers made so far
    bvHeld,       \* buffers the application or the getter holds and may write
    bvCache,      \* key -> data buffer of the ByteView in g.mainCache (0: none)
    bvView,       \* the ByteView that Group.Get returned last
    bvExpect,     \* key -> the bytes given to Set or returned by the getter
                  \*        when the entry was stored (history)
    bvLast        \* the last ByteSlice(): bytes returned, bytes stored (history)

bvVars == <<bvHeap, bvNext, bvHeld, bvCache, bvView, bvExpect, bvLast>>

(***************************************************************************)
(* Variables of the process-wide registry of groups (groups, groupsMu) and *)
(* of the callers of Close, DestroyGroup and DestroyAllGroups.             *)
(***************************************************************************)
VARIABLES
    regGroups,    \* groups : name -> the group registered under it (0: none)
    regMade,      \* number of groups NewGroup has made so far
    regName,      \* group -> g.name
    regClosed,    \* group -> g.closed
    regMu,        \* the goroutine that holds groupsMu.Lock() (0: nobody)
    regThread     \* goroutine -> the call it is in, and where

regVars == <<regGroups, regMade, regName, regClosed, regMu, regThread>>

vars == <<sfVars, clVars, lruVars, grVars, rdVars, pkVars, svVars, bvVars, regVars>>

(***************************************************************************)
(* Bounds.                                                                 *)
(***************************************************************************)
NCallers == 3
MaxClientOps == 2
MaxHops == 3
MaxWatchEvents == 1
MaxElems == 2
MaxTime == 2
MaxGets == 1
MaxPend == 1
NThreads == 3
MaxReads == 2
MaxStoreEvents == 3
MaxKeepAlives == 2
MaxBufs == 4
MaxLen == 2
NClosers == 2
MaxGroups == 3
NRegThreads == 2

\* deleteExpired: const maxScan = 100
maxScan == 100

(***************************************************************************)
(* singleflight: Do                                                        *)
(***************************************************************************)
Callers == 1 .. NCallers
SfKeys == {"key", "other"}

\* The zero value of call{}: val = nil, err = nil.
NilResult == [val |-> "nil", err |-> "nil"]
\* What fn may return: a value, another value, or an error with a nil value.
FnOutcomes == {[val |-> "bar", err |-> "nil"],
               [val |-> "baz", err |-> "nil"],
               [val |-> "nil", err |-> "some error"]}
NoReturn == [val |-> "none", err |-> "none"]

\* A call record is named after the caller that created it.
NoCall == 0

\* A fn for key k is executing: its caller installed the record and fn has
\* not returned yet.
FnRunning(k) == \E q \in Callers : sfKey[q] = k /\ sfPc[q] = "run"

SFFrame == UNCHANGED <<clVars, lruVars, grVars, rdVars, pkVars, svVars, bvVars, regVars>>

\* The single-flight coordinator before any Do: the zero value of Group.
IdleSF ==
    /\ sfM = [k \in SfKeys |-> NoCall]
    /\ sfWg = [c \in Callers |-> 0]
    /\ sfRes = [c \in Callers |-> NilResult]
    /\ sfPc = [p \in Callers |-> "idle"]
    /\ sfKey = [p \in Callers |-> "key"]
    /\ sfCall = [p \in Callers |-> NoCall]
    /\ sfRet = [p \in Callers |-> NoReturn]
    /\ sfFnCalls = [k \in SfKeys |-> 0]
    /\ sfDuring = [p \in Callers |-> FALSE]
    /\ sfMode = [p \in Callers |-> "Do"]
    /\ sfChan = [p \in Callers |-> <<>>]
    /\ sfSent = [p \in Callers |-> 0]
    /\ sfLate = [p \in Callers |-> FALSE]

\* A variant of mapLookup that never finds the record.
mapLookupMiss(k) == NoCall

\* if c, ok := g.m[key]; ok
mapLookup(k) == sfM[k]

\* Some caller that holds call record c has returned from Do, or has been
\* sent its Result.
ReturnedFrom(c) ==
    \E q \in Callers : sfCall[q] = c /\ sfPc[q] \in {"sent", "ret"}

\* Do and DoChan, from g.mu.Lock() to the g.mu.Unlock() of either branch: a
\* caller that finds a record keeps it and goes to wait; otherwise it installs
\* its own record with wg = 1.
lookupOrInstall(p, k, mode) ==
    /\ sfPc[p] = "idle"
    /\ sfKey' = [sfKey EXCEPT ![p] = k]
    /\ sfMode' = [sfMode EXCEPT ![p] = mode]
    /\ sfDuring' = [sfDuring EXCEPT ![p] = FnRunning(k)]
    /\ sfLate' = [sfLate EXCEPT ![p] = mapLookup(k) # NoCall /\ ReturnedFrom(mapLookup(k))]
    /\ IF mapLookup(k) # NoCall
       THEN /\ sfCall' = [sfCall EXCEPT ![p] = mapLookup(k)]
            /\ sfPc' = [sfPc EXCEPT ![p] = "wait"]
            /\ UNCHANGED <<sfM, sfWg, sfRes>>
       ELSE /\ sfCall' = [sfCall EXCEPT ![p] = p]
            /\ sfWg' = [sfWg EXCEPT ![p] = 1]
            /\ sfRes' = [sfRes EXCEPT ![p] = NilResult]
            /\ sfM' = [sfM EXCEPT ![k] = p]
            /\ sfPc' = [sfPc EXCEPT ![p] = "run"]
    /\ UNCHANGED <<sfRet, sfFnCalls, sfChan, sfSent>>
    /\ SFFrame

\* Do(key, fn), lines 132-144.
DoEnter(p, k) == lookupOrInstall(p, k, "Do")

\* DoChan(key, fn), lines 158-174 and "return ch": the caller gets the channel
\* at once; the goroutine DoChan started goes on from "wait" or "run".
DoChanEnter(p, k) == lookupOrInstall(p, k, "DoChan")

\* c.val, c.err = fn(): fn runs without the map lock and returns r.
DoCallFn(p, r) ==
    /\ sfPc[p] = "run"
    /\ sfFnCalls' = [sfFnCalls EXCEPT ![sfKey[p]] = @ + 1]
    /\ sfRes' = [sfRes EXCEPT ![sfCall[p]] = r]
    /\ sfPc' = [sfPc EXCEPT ![p] = "fnret"]
    /\ UNCHANGED <<sfM, sfWg, sfKey, sfCall, sfRet, sfDuring, sfMode, sfChan, sfSent, sfLate>>
    /\ SFFrame

\* c.val, c.err = fn() inside Do when fn panics: nothing is assigned, and Do
\* has no deferred call, so the panic unwinds Do past c.wg.Done() and past
\* delete(g.m, key) into the caller of Do.
DoFnPanics(p) ==
    /\ sfPc[p] = "run"
    /\ sfMode[p] = "Do"
    /\ sfFnCalls' = [sfFnCalls EXCEPT ![sfKey[p]] = @ + 1]
    /\ sfPc' = [sfPc EXCEPT ![p] = "panic"]
    /\ UNCHANGED <<sfM, sfWg, sfRes, sfKey, sfCall, sfRet, sfDuring, sfMode, sfChan, sfSent, sfLate>>
    /\ SFFrame

\* A variant of DoWgDone that leaves the WaitGroup counter as it is.
DoWgDoneSkip(p) ==
    /\ sfPc[p] = "fnret"
    /\ sfPc' = [sfPc EXCEPT ![p] = "del"]
    /\ UNCHANGED <<sfM, sfWg, sfRes, sfKey, sfCall, sfRet, sfFnCalls, sfDuring, sfMode, sfChan, sfSent, sfLate>>
    /\ SFFrame

\* c.wg.Done()
DoWgDone(p) ==
    /\ sfPc[p] = "fnret"
    /\ sfWg' = [sfWg EXCEPT ![sfCall[p]] = @ - 1]
    /\ sfPc' = [sfPc EXCEPT ![p] = "del"]
    /\ UNCHANGED <<sfM, sfRes, sfKey, sfCall, sfRet, sfFnCalls, sfDuring, sfMode, sfChan, sfSent, sfLate>>
    /\ SFFrame

\* g.mu.Lock(); delete(g.m, key); g.mu.Unlock()
DoDelete(p) ==
    /\ sfPc[p] = "del"
    /\ sfM' = [sfM EXCEPT ![sfKey[p]] = NoCall]
    /\ sfPc' = [sfPc EXCEPT ![p] = "unlocked"]
    /\ UNCHANGED <<sfWg, sfRes, sfKey, sfCall, sfRet, sfFnCalls, sfDuring, sfMode, sfChan, sfSent, sfLate>>
    /\ SFFrame

\* return c.val, c.err (the caller that ran fn)
DoReturn(p) ==
    /\ sfPc[p] = "unlocked"
    /\ sfMode[p] = "Do"
    /\ sfRet' = [sfRet EXCEPT ![p] = sfRes[sfCall[p]]]
    /\ sfPc' = [sfPc EXCEPT ![p] = "ret"]
    /\ UNCHANGED <<sfM, sfWg, sfRes, sfKey, sfCall, sfFnCalls, sfDuring, sfMode, sfChan, sfSent, sfLate>>
    /\ SFFrame

\* A variant of DoWait that does not wait for the latch.
DoWaitNoLatch(p) ==
    /\ sfPc[p] = "wait"
    /\ sfMode[p] = "Do"
    /\ sfRet' = [sfRet EXCEPT ![p] = sfRes[sfCall[p]]]
    /\ sfPc' = [sfPc EXCEPT ![p] = "ret"]
    /\ UNCHANGED <<sfM, sfWg, sfRes, sfKey, sfCall, sfFnCalls, sfDuring, sfMode, sfChan, sfSent, sfLate>>
    /\ SFFrame

\* c.wg.Wait(); return c.val, c.err (a caller that found the record)
DoWait(p) ==
    /\ sfPc[p] = "wait"
    /\ sfMode[p] = "Do"
    /\ sfWg[sfCall[p]] = 0
    /\ sfRet' = [sfRet EXCEPT ![p] = sfRes[sfCall[p]]]
    /\ sfPc' = [sfPc EXCEPT ![p] = "ret"]
    /\ UNCHANGED <<sfM, sfWg, sfRes, sfKey, sfCall, sfFnCalls, sfDuring, sfMode, sfChan, sfSent, sfLate>>
    /\ SFFrame

\* ch <- Result{c.val, c.err} on a channel made by make(chan Result, 1): the
\* send needs room in the buffer.
chanSend(p) ==
    /\ Len(sfChan[p]) < 1
    /\ sfChan' = [sfChan EXCEPT ![p] = Append(@, sfRes[sfCall[p]])]
    /\ sfSent' = [sfSent EXCEPT ![p] = @ + 1]
    /\ sfPc' = [sfPc EXCEPT ![p] = "sent"]
    /\ UNCHANGED <<sfM, sfWg, sfRes, sfKey, sfCall, sfRet, sfFnCalls, sfDuring, sfMode, sfLate>>
    /\ SFFrame

\* DoChan, the goroutine that ran fn: ch <- Result{c.val, c.err} (line 184)
DoChanSend(p) ==
    /\ sfPc[p] = "unlocked"
    /\ sfMode[p] = "DoChan"
    /\ chanSend(p)

\* DoChan, the goroutine of a caller that found the record:
\* c.wg.Wait(); ch <- Result{c.val, c.err} (lines 165-168)
DoChanWait(p) ==
    /\ sfPc[p] = "wait"
    /\ sfMode[p] = "DoChan"
    /\ sfWg[sfCall[p]] = 0
    /\ chanSend(p)

\* res := <-ch by the caller of DoChan
DoChanRecv(p) ==
    /\ sfPc[p] = "sent"
    /\ sfChan[p] # <<>>
    /\ sfRet' = [sfRet EXCEPT ![p] = Head(sfChan[p])]
    /\ sfChan' = [sfChan EXCEPT ![p] = Tail(@)]
    /\ sfPc' = [sfPc EXCEPT ![p] = "ret"]
    /\ UNCHANGED <<sfM, sfWg, sfRes, sfKey, sfCall, sfFnCalls, sfDuring, sfMode, sfSent, sfLate>>
    /\ SFFrame

NextSF ==
    \/ \E p \in Callers, k \in SfKeys : DoEnter(p, k)
    \/ \E p \in Callers, k \in SfKeys : DoChanEnter(p, k)
    \/ \E p \in Callers, r \in FnOutcomes : DoCallFn(p, r)
    \/ \E p \in Callers : DoFnPanics(p)
    \/ \E p \in Callers : DoWgDone(p)
    \/ \E p \in Callers : DoDelete(p)
    \/ \E p \in Callers : DoReturn(p)
    \/ \E p \in Callers : DoWait(p)
    \/ \E p \in Callers : DoChanSend(p)
    \/ \E p \in Callers : DoChanWait(p)
    \/ \E p \in Callers : DoChanRecv(p)

\* The coordinator when every caller uses DoChan and fn does not panic.
NextSFChan ==
    \/ \E p \in Callers, k \in SfKeys : DoChanEnter(p, k)
    \/ \E p \in Callers, r \in FnOutcomes : DoCallFn(p, r)
    \/ \E p \in Callers : DoWgDone(p)
    \/ \E p \in Callers : DoDelete(p)
    \/ \E p \in Callers : DoChanSend(p)
    \/ \E p \in Callers : DoChanWait(p)
    \/ \E p \in Callers : DoChanRecv(p)


(***************************************************************************)
(* The cluster: Group.Set / Group.Delete / Group.syncToPeers on each node, *)
(* Server.Set / Server.Delete behind the transport, and the ClientPicker.  *)
(* Every node has a peer picker registered (g.peers != nil) and its group  *)
(* stays open (g.closed = 0) throughout this specification.                *)
(***************************************************************************)
Nodes == {"A", "B", "C"}
ClKeys == {"", "k1", "k2"}
ClValues == {"", "v1", "v2"}
Absent == "<absent>"
ClientOps == 1 .. MaxClientOps
NoOrigin == [op |-> "none", node |-> "none", key |-> "none"]

\* Positions on the ring: one virtual node per address.
NodeHash(n) == CASE n = "A" -> 1 [] n = "B" -> 2 [] OTHER -> 3
KeyHash(k) == CASE k = "k1" -> 2 [] k = "k2" -> 3 [] OTHER -> 1

\* consHash.Get(key): the first node at or after the key's hash, wrapping to
\* the lowest position; "" on an empty ring.
consHashGet(ring, k) ==
    IF ring = {} THEN ""
    ELSE LET after == {n \in ring : NodeHash(n) >= KeyHash(k)}
             from == IF after = {} THEN ring ELSE after
         IN CHOOSE n \in from : \A m \in from : NodeHash(n) <= NodeHash(m)

\* PickPeer(key): (peer, ok, self)
PickPeer(n, k) ==
    LET addr == consHashGet(clRing[n], k)
    IN IF addr # "" /\ addr \in clClients[n]
       THEN [peer |-> addr, ok |-> TRUE, self |-> (addr = n)]
       ELSE [peer |-> "", ok |-> FALSE, self |-> FALSE]

ClFrame == UNCHANGED <<sfVars, lruVars, grVars, rdVars, pkVars, svVars, bvVars, regVars>>

\* The cluster once every node has discovered the two others.
IdleCl ==
    /\ clCache = [n \in Nodes |-> [k \in ClKeys \ {""} |-> Absent]]
    /\ clRing = [n \in Nodes |-> Nodes \ {n}]
    /\ clClients = [n \in Nodes |-> Nodes \ {n}]
    /\ clHosted = [n \in Nodes |-> TRUE]
    /\ clTasks = {}
    /\ clRpcs = {}
    /\ clOps = 0
    /\ clOrigin = [o \in ClientOps |-> NoOrigin]
    /\ clSent = [o \in ClientOps |-> <<>>]
    /\ clSynced = [o \in ClientOps |-> "none"]
    /\ clSrvSeen = {}
    /\ clPeerSyncs = [op \in {"set", "delete"} |-> 0]
    /\ clEvents = 0

\* History kept for a Group call: srv says a Server handler delegated to it,
\* launched says it started a syncToPeers goroutine.
NoteGroupCall(op, isPeerRequest, o, srv, launched) ==
    /\ clSrvSeen' = IF srv THEN clSrvSeen \cup {[op |-> op, isPeer |-> isPeerRequest]}
                    ELSE clSrvSeen
    /\ clPeerSyncs' = IF srv /\ launched
                      THEN [clPeerSyncs EXCEPT ![op] = @ + 1] ELSE clPeerSyncs
    /\ clSynced' = IF ~srv /\ launched
                   THEN [clSynced EXCEPT ![o] = "pending"] ELSE clSynced

\* Group.Set(ctx, key, value) on node n; marker says ctx.Value("from_peer")
\* is not nil.
GroupSet(n, k, v, marker, o, srv) ==
    IF k = "" \/ v = ""
    THEN /\ UNCHANGED <<clCache, clTasks>>
         /\ NoteGroupCall("set", marker, o, srv, FALSE)
    ELSE LET isPeerRequest == marker
             launch == ~isPeerRequest
         IN /\ clCache' = [clCache EXCEPT ![n][k] = v]
            /\ clTasks' = IF launch
                          THEN clTasks \cup {[node |-> n, op |-> "set", key |-> k,
                                              value |-> v, origin |-> o, own |-> ~srv]}
                          ELSE clTasks
            /\ NoteGroupCall("set", isPeerRequest, o, srv, launch)

\* Group.Delete(ctx, key) on node n.
GroupDelete(n, k, marker, o, srv) ==
    IF k = ""
    THEN /\ UNCHANGED <<clCache, clTasks>>
         /\ NoteGroupCall("delete", marker, o, srv, FALSE)
    ELSE LET isPeerRequest == marker
             launch == ~isPeerRequest
         IN /\ clCache' = [clCache EXCEPT ![n][k] = Absent]
            /\ clTasks' = IF launch
                          THEN clTasks \cup {[node |-> n, op |-> "delete", key |-> k,
                                              value |-> "", origin |-> o, own |-> ~srv]}
                          ELSE clTasks
            /\ NoteGroupCall("delete", isPeerRequest, o, srv, launch)

\* The application calls group.Set(ctx, k, v) on node n with a plain ctx.
ClientSet(n, k, v) ==
    /\ clOps < MaxClientOps
    /\ clHosted[n]
    /\ clOps' = clOps + 1
    /\ clOrigin' = [clOrigin EXCEPT ![clOps + 1] = [op |-> "set", node |-> n, key |-> k]]
    /\ GroupSet(n, k, v, FALSE, clOps + 1, FALSE)
    /\ UNCHANGED <<clRing, clClients, clHosted, clRpcs, clSent, clEvents>>
    /\ ClFrame

\* The application calls group.Delete(ctx, k) on node n with a plain ctx.
ClientDelete(n, k) ==
    /\ clOps < MaxClientOps
    /\ clHosted[n]
    /\ clOps' = clOps + 1
    /\ clOrigin' = [clOrigin EXCEPT ![clOps + 1] = [op |-> "delete", node |-> n, key |-> k]]
    /\ GroupDelete(n, k, FALSE, clOps + 1, FALSE)
    /\ UNCHANGED <<clRing, clClients, clHosted, clRpcs, clSent, clEvents>>
    /\ ClFrame

\* A variant of syncToPeers that sends the request to every peer the picker
\* has a client for.
syncToPeersBroadcast(t) ==
    /\ t \in clTasks
    /\ Len(clSent[t.origin]) < MaxHops
    /\ clTasks' = clTasks \ {t}
    /\ clRpcs' = clRpcs \cup {[from |-> t.node, to |-> a, op |-> t.op, key |-> t.key,
                                value |-> t.value, origin |-> t.origin] :
                                a \in clClients[t.node]}
    /\ clSent' = [clSent EXCEPT ![t.origin] =
                     Append(@, [from |-> t.node, to |-> "all", op |-> t.op])]
    /\ clSynced' = IF t.own THEN [clSynced EXCEPT ![t.origin] = "sent"] ELSE clSynced
    /\ UNCHANGED <<clCache, clRing, clClients, clHosted, clOps, clOrigin,
                   clSrvSeen, clPeerSyncs, clEvents>>
    /\ ClFrame

\* The goroutine syncToPeers(ctx, op, key, value): pick the owner; return when
\* there is none or it is this node; otherwise peer.Set(syncCtx, ...) or
\* peer.Delete(...), which sends the request.
syncToPeers(t) ==
    /\ t \in clTasks
    /\ LET pick == PickPeer(t.node, t.key)
       IN IF ~pick.ok \/ pick.self
          THEN /\ clTasks' = clTasks \ {t}
               /\ clSynced' = IF t.own THEN [clSynced EXCEPT ![t.origin] = "nopeer"]
                              ELSE clSynced
               /\ UNCHANGED <<clRpcs, clSent>>
          ELSE /\ Len(clSent[t.origin]) < MaxHops
               /\ clTasks' = clTasks \ {t}
               /\ clRpcs' = clRpcs \cup {[from |-> t.node, to |-> pick.peer, op |-> t.op,
                                          key |-> t.key, value |-> t.value,
                                          origin |-> t.origin]}
               /\ clSent' = [clSent EXCEPT ![t.origin] =
                                Append(@, [from |-> t.node, to |-> pick.peer, op |-> t.op])]
               /\ clSynced' = IF t.own THEN [clSynced EXCEPT ![t.origin] = "sent"]
                              ELSE clSynced
    /\ UNCHANGED <<clCache, clRing, clClients, clHosted, clOps, clOrigin,
                   clSrvSeen, clPeerSyncs, clEvents>>
    /\ ClFrame

\* The ctx a server handler receives: values of the caller's context do not
\* travel with the request, so "from_peer" is nil on arrival.
InboundMarker == FALSE

\* A Server.Set that passes its ctx on as received.
ServerSetCtxAsReceived(marker) == marker

\* Server.Set: if ctx.Value("from_peer") == nil, ctx = WithValue(ctx,
\* "from_peer", true).
ServerSetCtx(marker) == IF ~marker THEN TRUE ELSE marker

\* Server.Delete passes its ctx on as received.
ServerDeleteCtx(marker) == marker

\* Server.Set on the receiving node: GetGroup, stamp the ctx, group.Set.
ServerSet(m) ==
    /\ m \in clRpcs
    /\ m.op = "set"
    /\ clRpcs' = clRpcs \ {m}
    /\ IF ~clHosted[m.to]
       THEN UNCHANGED <<clCache, clTasks, clSynced, clSrvSeen, clPeerSyncs>>
       ELSE GroupSet(m.to, m.key, m.value, ServerSetCtx(InboundMarker), m.origin, TRUE)
    /\ UNCHANGED <<clRing, clClients, clHosted, clOps, clOrigin, clSent, clEvents>>
    /\ ClFrame

\* Server.Delete on the receiving node: GetGroup, group.Delete(ctx, key).
ServerDelete(m) ==
    /\ m \in clRpcs
    /\ m.op = "delete"
    /\ clRpcs' = clRpcs \ {m}
    /\ IF ~clHosted[m.to]
       THEN UNCHANGED <<clCache, clTasks, clSynced, clSrvSeen, clPeerSyncs>>
       ELSE GroupDelete(m.to, m.key, ServerDeleteCtx(InboundMarker), m.origin, TRUE)
    /\ UNCHANGED <<clRing, clClients, clHosted, clOps, clOrigin, clSent, clEvents>>
    /\ ClFrame

\* The request never reaches a server (connection error): Client.Set or
\* Client.Delete returns an error, which syncToPeers only logs.
RpcFails(m) ==
    /\ m \in clRpcs
    /\ clRpcs' = clRpcs \ {m}
    /\ UNCHANGED <<clCache, clRing, clClients, clHosted, clTasks, clOps, clOrigin,
                   clSent, clSynced, clSrvSeen, clPeerSyncs, clEvents>>
    /\ ClFrame

\* handleWatchEvents, one put event for addr; created says NewClient succeeded.
WatchPut(n, addr, created) ==
    /\ clEvents < MaxWatchEvents
    /\ clEvents' = clEvents + 1
    /\ IF addr = n \/ addr \in clClients[n] \/ ~created
       THEN UNCHANGED <<clRing, clClients>>
       ELSE /\ clClients' = [clClients EXCEPT ![n] = @ \cup {addr}]
            /\ clRing' = [clRing EXCEPT ![n] = @ \cup {addr}]
    /\ UNCHANGED <<clCache, clHosted, clTasks, clRpcs, clOps, clOrigin, clSent,
                   clSynced, clSrvSeen, clPeerSyncs>>
    /\ ClFrame

\* handleWatchEvents, one delete event for addr.
WatchDelete(n, addr) ==
    /\ clEvents < MaxWatchEvents
    /\ clEvents' = clEvents + 1
    /\ IF addr = n \/ addr \notin clClients[n]
       THEN UNCHANGED <<clRing, clClients>>
       ELSE /\ clClients' = [clClients EXCEPT ![n] = @ \ {addr}]
            /\ clRing' = [clRing EXCEPT ![n] = @ \ {addr}]
    /\ UNCHANGED <<clCache, clHosted, clTasks, clRpcs, clOps, clOrigin, clSent,
                   clSynced, clSrvSeen, clPeerSyncs>>
    /\ ClFrame

NextCluster ==
    \/ \E n \in Nodes, k \in ClKeys, v \in ClValues : ClientSet(n, k, v)
    \/ \E n \in Nodes, k \in ClKeys : ClientDelete(n, k)
    \/ \E t \in clTasks : syncToPeers(t)
    \/ \E m \in clRpcs : ServerSet(m)
    \/ \E m \in clRpcs : ServerDelete(m)
    \/ \E m \in clRpcs : RpcFails(m)
    \/ \E n \in Nodes, a \in Nodes, c \in BOOLEAN : WatchPut(n, a, c)
    \/ \E n \in Nodes, a \in Nodes : WatchDelete(n, a)

\* The cluster with stable membership and reliable requests: no watch
\* event arrives and no request is lost.
NextClusterStable ==
    \/ \E n \in Nodes, k \in ClKeys, v \in ClValues : ClientSet(n, k, v)
    \/ \E n \in Nodes, k \in ClKeys : ClientDelete(n, k)
    \/ \E t \in clTasks : syncToPeers(t)
    \/ \E m \in clRpcs : ServerSet(m)
    \/ \E m \in clRpcs : ServerDelete(m)


(***************************************************************************)
(* store.lruCache over container/list                                      *)
(***************************************************************************)
LruKeys == {"a", "b"}
LruValues == {"v", "wwwwww"}
\* Options.MaxBytes of the store under test; 0 disables the capacity bound.
MaxBytesChoices == {4}
\* SetWithExpiration's duration argument; 0 is what Set passes.
Durations == {0, 1}

\* l.root, the sentinel element of the list.
Root == 0
ElemIds == 1 .. MaxElems
\* The nil *list.Element.
NilElem == MaxElems + 1
NoEntry == [key |-> "", value |-> ""]
NilValue == ""
Closers == 1 .. NClosers
NoHist == [kind |-> "none", at |-> 0, val |-> ""]
\* What is remembered of an operation: what was called, what it returned,
\* and for a Get the value of a Set(key, value) that directly preceded it.
Ret(op, k, v, ok, d, after) ==
    [op |-> op, key |-> k, val |-> v, ok |-> ok, dur |-> d, after |-> after]
NoOp == [op |-> "none", key |-> "", val |-> "", ok |-> FALSE, dur |-> 0, after |-> ""]
\* make(map[string]...)
EmptyMap == [x \in {} |-> 0]

MapDelete(f, k) == [x \in DOMAIN f \ {k} |-> f[x]]
MapPut(f, k, v) == [x \in DOMAIN f \cup {k} |-> IF x = k THEN v ELSE f[x]]
\* The orders in which a range over a Go map may produce its keys.
RangeOrders(S) ==
    {o \in [1 .. Cardinality(S) -> S] : \A i, j \in DOMAIN o : o[i] = o[j] => i = j}

\* ---- container/list -----------------------------------------------------
\* l.Init(): only the root and the length are reset; the elements that were
\* in the list keep their list, next and prev fields.
listInit(l) ==
    [l EXCEPT !.next[Root] = Root, !.prev[Root] = Root, !.len = 0]

\* l.insert(e, at)
listInsert(l, e, at) ==
    LET l1 == [l EXCEPT !.prev[e] = at]
        l2 == [l1 EXCEPT !.next[e] = l1.next[at]]
        l3 == [l2 EXCEPT !.next[l2.prev[e]] = e]
        l4 == [l3 EXCEPT !.prev[l3.next[e]] = e]
    IN  [l4 EXCEPT !.list[e] = TRUE, !.len = @ + 1]

\* l.remove(e)
listRemove(l, e) ==
    LET l1 == [l EXCEPT !.next[l.prev[e]] = l.next[e]]
        l2 == [l1 EXCEPT !.prev[l1.next[e]] = l1.prev[e]]
    IN  [l2 EXCEPT !.next[e] = NilElem, !.prev[e] = NilElem,
                   !.list[e] = FALSE, !.len = @ - 1]

\* l.move(e, at)
listMove(l, e, at) ==
    IF e = at THEN l
    ELSE LET l1 == [l EXCEPT !.next[l.prev[e]] = l.next[e]]
             l2 == [l1 EXCEPT !.prev[l1.next[e]] = l1.prev[e]]
             l3 == [l2 EXCEPT !.prev[e] = at]
             l4 == [l3 EXCEPT !.next[e] = l3.next[at]]
             l5 == [l4 EXCEPT !.next[l4.prev[e]] = e]
             l6 == [l5 EXCEPT !.prev[l5.next[e]] = e]
         IN  l6

\* l.Remove(e): if e.list == l { l.remove(e) }
Remove(l, e) == IF l.list[e] THEN listRemove(l, e) ELSE l
\* l.MoveToBack(e): if e.list != l || l.root.prev == e { return }
MoveToBack(l, e) ==
    IF ~l.list[e] \/ l.prev[Root] = e THEN l ELSE listMove(l, e, l.prev[Root])
\* l.PushBack(v) with a newly allocated element e
PushBack(l, e) == listInsert(l, e, l.prev[Root])
\* l.Front(): nil when l.len == 0, else l.root.next
Front(l) == IF l.len = 0 THEN NilElem ELSE l.next[Root]

\* The elements met walking from the front by next pointers up to the root.
RECURSIVE chainFrom(_, _, _)
chainFrom(l, e, n) ==
    IF e = Root \/ e = NilElem \/ n = 0 THEN <<>>
    ELSE <<e>> \o chainFrom(l, l.next[e], n - 1)
Order(l) == chainFrom(l, l.next[Root], MaxElems + 1)
OrderEntries(l, ent) == [i \in 1 .. Len(Order(l)) |-> ent[Order(l)[i]]]

\* ---- lruCache ----------------------------------------------------------
\* len(entry.key) + entry.value.Len()
entrySize(en) == Len(en.key) + Len(en.value)

\* A variant of After that never reports a time as passed.
AfterNever(t, u) == FALSE

\* time.Now().After(expireTime)
After(t, u) == t > u

\* A variant of setExpiry that leaves an old expiry in place when duration
\* is 0.
setExpiryKeep(exp, k, d, now) ==
    IF d > 0 THEN MapPut(exp, k, now + d) ELSE exp

\* SetWithExpiration: the expiry is set when duration > 0 and deleted
\* otherwise.
setExpiry(exp, k, d, now) ==
    IF d > 0 THEN MapPut(exp, k, now + d) ELSE MapDelete(exp, k)

\* The store as the methods see it while holding c.mu, with the onEvicted
\* calls (cb) and removals made so far and whether the method panicked.
Store ==
    [ll |-> lruLL, ent |-> lruEnt, alloc |-> lruAlloc, items |-> lruItems,
     exp |-> lruExp, used |-> lruUsed, cb |-> <<>>, removed |-> {},
     panic |-> FALSE]

\* A variant of removeElement that leaves the key in c.expiredTime.
removeElementKeepExpiry(s, e) ==
    IF e = Root THEN [s EXCEPT !.panic = TRUE]
    ELSE LET en == s.ent[e] IN
         [s EXCEPT !.ll = Remove(s.ll, e),
                   !.items = MapDelete(s.items, en.key),
                   !.used = @ - entrySize(en),
                   !.removed = @ \cup {en.key},
                   !.cb = IF lruCbOn THEN Append(@, en) ELSE @]

\* removeElement(elem). The type assertion elem.Value.(*lruEntry) panics for
\* the root, whose Value is nil.
removeElement(s, e) ==
    IF e = Root THEN [s EXCEPT !.panic = TRUE]
    ELSE LET en == s.ent[e] IN
         [s EXCEPT !.ll = Remove(s.ll, e),
                   !.items = MapDelete(s.items, en.key),
                   !.exp = MapDelete(s.exp, en.key),
                   !.used = @ - entrySize(en),
                   !.removed = @ \cup {en.key},
                   !.cb = IF lruCbOn THEN Append(@, en) ELSE @]

\* removeOldest()
RECURSIVE removeOldest(_)
removeOldest(s) ==
    IF s.panic \/ ~(lruMax > 0 /\ s.used > lruMax /\ s.ll.len > 0) THEN s
    ELSE LET elem == Front(s.ll) IN
         IF elem # NilElem THEN removeOldest(removeElement(s, elem))
         ELSE s

\* SetWithExpiration(key, value, duration), up to the call of removeOldest.
setEntry(s, k, v, d) ==
    LET s1 == [s EXCEPT !.exp = setExpiry(s.exp, k, d, lruNow)] IN
    IF k \in DOMAIN s1.items
    THEN LET ele == s1.items[k] IN
         [s1 EXCEPT !.used = @ + (Len(v) - Len(s1.ent[ele].value)),
                    !.ent[ele].value = v,
                    !.ll = MoveToBack(s1.ll, ele)]
    ELSE LET elem == s1.alloc + 1 IN
         [s1 EXCEPT !.alloc = elem,
                    !.ent[elem] = [key |-> k, value |-> v],
                    !.ll = PushBack(s1.ll, elem),
                    !.items = MapPut(s1.items, k, elem),
                    !.used = @ + (Len(k) + Len(v))]

\* deleteExpired(): the range over c.expiredTime produces the keys in some
\* order and stops after maxScan of them.
RECURSIVE deleteExpired(_, _, _)
deleteExpired(s, order, scanned) ==
    IF order = <<>> \/ scanned >= maxScan THEN s
    ELSE LET key == Head(order)
             s1 == IF After(lruNow, s.exp[key]) /\ key \in DOMAIN s.items
                   THEN removeElement(s, s.items[key])
                   ELSE s
         IN  deleteExpired(s1, Tail(order), scanned + 1)

\* Clear(): one onEvicted call per item, then the list, the maps and
\* usedBytes are reset.
RECURSIVE clearCallbacks(_, _)
clearCallbacks(s, order) ==
    IF order = <<>> THEN s
    ELSE clearCallbacks([s EXCEPT !.cb = Append(@, s.ent[s.items[Head(order)]])],
                        Tail(order))
\* A variant of clearStore that keeps c.expiredTime.
clearStoreKeepExpiry(s, order) ==
    LET s1 == IF lruCbOn THEN clearCallbacks(s, order) ELSE s IN
    [s1 EXCEPT !.ll = listInit(s1.ll), !.items = EmptyMap,
               !.used = 0, !.removed = DOMAIN s.items]

clearStore(s, order) ==
    LET s1 == IF lruCbOn THEN clearCallbacks(s, order) ELSE s IN
    [s1 EXCEPT !.ll = listInit(s1.ll), !.items = EmptyMap, !.exp = EmptyMap,
               !.used = 0, !.removed = DOMAIN s.items]

\* What is remembered of the time-to-live of the keys ks is forgotten once
\* they are removed; a removal by the reaper or by a goroutine that Get
\* launched is not a reason to forget that a key's time-to-live was cleared.
Forget(h, ks) ==
    [k \in LruKeys |-> IF k \in ks THEN NoHist ELSE h[k]]
ForgetTtl(h, ks) ==
    [k \in LruKeys |-> IF k \in ks /\ h[k].kind = "ttl" THEN NoHist ELSE h[k]]

\* The state a method leaves behind when it releases c.mu.
Commit(s) ==
    /\ lruLL' = s.ll
    /\ lruEnt' = s.ent
    /\ lruAlloc' = s.alloc
    /\ lruItems' = s.items
    /\ lruExp' = s.exp
    /\ lruUsed' = s.used
    /\ lruCb' = s.cb

LRUFrame == UNCHANGED <<sfVars, clVars, grVars, rdVars, pkVars, svVars, bvVars, regVars>>

\* The store returned by newLRUCache(opts).
IdleLRU ==
    /\ lruUsed = 0
    /\ lruLL = [next |-> [e \in {Root} \cup ElemIds |-> IF e = Root THEN Root ELSE NilElem],
                prev |-> [e \in {Root} \cup ElemIds |-> IF e = Root THEN Root ELSE NilElem],
                list |-> [e \in {Root} \cup ElemIds |-> FALSE],
                len |-> 0]
    /\ lruEnt = [e \in ElemIds |-> NoEntry]
    /\ lruAlloc = 0
    /\ lruItems = EmptyMap
    /\ lruExp = EmptyMap
    /\ lruNow = 0
    /\ lruGets = {}
    /\ lruPend = [k \in LruKeys |-> 0]
    /\ lruLast = NoOp
    /\ lruCb = <<>>
    /\ lruHist = [k \in LruKeys |-> NoHist]
    /\ lruTickerOn = TRUE
    /\ lruStopCloses = 0
    /\ lruOnce = "fresh"
    /\ lruLoop = "select"
    /\ lruClosePc = [c \in Closers |-> "idle"]
    /\ lruLateReaps = 0

\* SetWithExpiration(key, value, duration) under c.mu; Set is duration 0.
SetWithExpiration(k, v, d) ==
    /\ k \in DOMAIN lruItems \/ lruAlloc < MaxElems
    /\ LET s == removeOldest(setEntry(Store, k, v, d))
           h == IF s.panic THEN NoHist
                ELSE IF d > 0 THEN [kind |-> "ttl", at |-> lruNow + d, val |-> v]
                ELSE IF lruHist[k].kind \in {"ttl", "cleared"} /\ lruPend[k] = 0
                     THEN [kind |-> "cleared", at |-> lruHist[k].at, val |-> v]
                     ELSE NoHist
       IN  /\ Commit(s)
           /\ lruLast' = Ret("set", k, v, ~s.panic, d, "")
           /\ lruHist' = Forget([lruHist EXCEPT ![k] = h], s.removed)
    /\ UNCHANGED <<lruMax, lruCbOn, lruNow, lruGets, lruPend>>
    /\ UNCHANGED lruCloseVars
    /\ LRUFrame

\* The value of a Set(k, value) that returned directly before this operation.
JustSet(k) ==
    IF lruLast.op = "set" /\ lruLast.ok /\ lruLast.key = k /\ lruLast.dur = 0
    THEN lruLast.val ELSE ""

\* Get(key), the part under c.mu.RLock(): a miss, an expired entry (a miss
\* that launches "go c.Delete(key)"), or a hit that goes on to take c.mu.
GetRead(k) ==
    /\ Cardinality(lruGets) < MaxGets
    /\ IF k \notin DOMAIN lruItems
       THEN /\ lruLast' = Ret("get", k, NilValue, FALSE, 0, JustSet(k))
            /\ UNCHANGED <<lruGets, lruPend>>
       ELSE IF k \in DOMAIN lruExp /\ After(lruNow, lruExp[k])
       THEN /\ lruPend[k] < MaxPend
            /\ lruPend' = [lruPend EXCEPT ![k] = @ + 1]
            /\ lruLast' = Ret("get", k, NilValue, FALSE, 0, JustSet(k))
            /\ UNCHANGED lruGets
       ELSE /\ lruGets' = lruGets \cup {[key |-> k, ele |-> lruItems[k]]}
            /\ lruLast' = Ret("get", k, lruEnt[lruItems[k]].value, TRUE, 0, JustSet(k))
            /\ UNCHANGED lruPend
    /\ lruCb' = <<>>
    /\ UNCHANGED <<lruMax, lruCbOn, lruUsed, lruLL, lruEnt, lruAlloc, lruItems,
                   lruExp, lruNow, lruHist>>
    /\ UNCHANGED lruCloseVars
    /\ LRUFrame

\* Get(key), the part under c.mu.Lock(): the element read earlier is moved
\* to the back if the key is (still, or again) in c.items.
GetMove(g) ==
    /\ lruGets' = lruGets \ {g}
    /\ lruLL' = IF g.key \in DOMAIN lruItems THEN MoveToBack(lruLL, g.ele) ELSE lruLL
    /\ lruLast' = NoOp
    /\ lruCb' = <<>>
    /\ UNCHANGED <<lruMax, lruCbOn, lruUsed, lruEnt, lruAlloc, lruItems, lruExp,
                   lruNow, lruPend, lruHist>>
    /\ UNCHANGED lruCloseVars
    /\ LRUFrame

\* Delete(key): removeElement if the key is in c.items.
deleteKey(s, k) == IF k \in DOMAIN s.items THEN removeElement(s, s.items[k]) ELSE s

\* Delete(key) called by a user of the store.
Delete(k) ==
    /\ LET s == deleteKey(Store, k) IN
           /\ Commit(s)
           /\ lruLast' = Ret("delete", k, NilValue, k \in DOMAIN lruItems, 0, "")
           /\ lruHist' = Forget(lruHist, s.removed)
    /\ UNCHANGED <<lruMax, lruCbOn, lruNow, lruGets, lruPend>>
    /\ UNCHANGED lruCloseVars
    /\ LRUFrame

\* A goroutine launched by Get's "go c.Delete(key)" runs.
AsyncDelete(k) ==
    /\ lruPend[k] > 0
    /\ lruPend' = [lruPend EXCEPT ![k] = @ - 1]
    /\ LET s == deleteKey(Store, k) IN
           /\ Commit(s)
           /\ lruLast' = NoOp
           /\ lruHist' = ForgetTtl(lruHist, s.removed)
    /\ UNCHANGED <<lruMax, lruCbOn, lruNow, lruGets>>
    /\ UNCHANGED lruCloseVars
    /\ LRUFrame

\* Clear(); the range over c.items produces the keys in the given order.
Clear(order) ==
    /\ LET s == clearStore(Store, order) IN
           /\ Commit(s)
           /\ lruLast' = Ret("clear", "", NilValue, TRUE, 0, "")
           /\ lruHist' = Forget(lruHist, s.removed)
    /\ UNCHANGED <<lruMax, lruCbOn, lruNow, lruGets, lruPend>>
    /\ UNCHANGED lruCloseVars
    /\ LRUFrame

\* Whether a call of Close has returned.
CloseHasReturned == \E c \in Closers : lruClosePc[c] = "done"

\* The part of a reaper pass that is not the scan: the loop goes back to its
\* select, and what it removed after a Close returned is counted.
ReaperPass(s) ==
    /\ lruLoop = "tick"
    /\ lruLoop' = "select"
    /\ lruLateReaps' = IF CloseHasReturned
                        THEN lruLateReaps + Cardinality(s.removed)
                        ELSE lruLateReaps
    /\ UNCHANGED <<lruTickerOn, lruStopCloses, lruOnce, lruClosePc>>

\* A variant of ReaperTick that removes the first key of the range whether
\* or not its time has passed.
ReaperTickFirst(order) ==
    /\ LET s == IF order = <<>> THEN Store ELSE deleteKey(Store, Head(order)) IN
           /\ Commit(s)
           /\ ReaperPass(s)
           /\ lruLast' = Ret("reap", "", NilValue, TRUE, 0, "")
           /\ lruHist' = ForgetTtl(lruHist, s.removed)
    /\ UNCHANGED <<lruMax, lruCbOn, lruNow, lruGets, lruPend>>
    /\ LRUFrame

\* cleanupLoop, the case of the tick it received: deleteExpired runs under
\* c.mu and the loop goes back to its select.
ReaperTick(order) ==
    /\ LET s == deleteExpired(Store, order, 0) IN
           /\ Commit(s)
           /\ ReaperPass(s)
           /\ lruLast' = Ret("reap", "", NilValue, TRUE, 0, "")
           /\ lruHist' = ForgetTtl(lruHist, s.removed)
    /\ UNCHANGED <<lruMax, lruCbOn, lruNow, lruGets, lruPend>>
    /\ LRUFrame

\* What Close and cleanupLoop leave alone outside a reaper pass.
StoreUntouched ==
    UNCHANGED <<lruMax, lruCbOn, lruUsed, lruLL, lruEnt, lruAlloc, lruItems, lruExp,
                lruNow, lruGets, lruPend, lruLast, lruCb, lruHist, lruLateReaps>>

\* cleanupLoop: the select receives a tick of the running ticker; the loop
\* goes on to take c.mu.
ReaperRecv ==
    /\ lruLoop = "select"
    /\ lruTickerOn
    /\ lruLoop' = "tick"
    /\ UNCHANGED <<lruTickerOn, lruStopCloses, lruOnce, lruClosePc>>
    /\ StoreUntouched
    /\ LRUFrame

\* cleanupLoop: the select finds c.stopCleanup closed; the loop stops the
\* ticker and returns.
ReaperStop ==
    /\ lruLoop = "select"
    /\ lruStopCloses > 0
    /\ lruLoop' = "returned"
    /\ lruTickerOn' = FALSE
    /\ UNCHANGED <<lruStopCloses, lruOnce, lruClosePc>>
    /\ StoreUntouched
    /\ LRUFrame

\* c.stopOnce.Do(f) runs f only if no Do ran it before.
onceFresh == lruOnce = "fresh"

\* Close(), up to the first statement of the function given to stopOnce.Do:
\* the first caller stops the ticker; a later caller returns at once, after
\* waiting for a caller that is inside Do.
CloseEnter(c) ==
    /\ lruClosePc[c] = "idle"
    /\ lruOnce # "running"
    /\ IF onceFresh
       THEN /\ lruOnce' = "running"
            /\ lruTickerOn' = FALSE
            /\ lruClosePc' = [lruClosePc EXCEPT ![c] = "inOnce"]
       ELSE /\ lruClosePc' = [lruClosePc EXCEPT ![c] = "done"]
            /\ UNCHANGED <<lruOnce, lruTickerOn>>
    /\ UNCHANGED <<lruStopCloses, lruLoop>>
    /\ StoreUntouched
    /\ LRUFrame

\* Close(): close(c.stopCleanup), and the return from stopOnce.Do.
CloseLatch(c) ==
    /\ lruClosePc[c] = "inOnce"
    /\ lruStopCloses' = lruStopCloses + 1
    /\ lruOnce' = "done"
    /\ lruClosePc' = [lruClosePc EXCEPT ![c] = "done"]
    /\ UNCHANGED <<lruTickerOn, lruLoop>>
    /\ StoreUntouched
    /\ LRUFrame

\* Time passes between two operations.
Tick ==
    /\ lruNow < MaxTime
    /\ lruNow' = lruNow + 1
    /\ lruLast' = NoOp
    /\ lruCb' = <<>>
    /\ UNCHANGED <<lruMax, lruCbOn, lruUsed, lruLL, lruEnt, lruAlloc, lruItems,
                   lruExp, lruGets, lruPend, lruHist>>
    /\ UNCHANGED lruCloseVars
    /\ LRUFrame

NextLRU ==
    \/ \E k \in LruKeys, v \in LruValues, d \in Durations : SetWithExpiration(k, v, d)
    \/ \E k \in LruKeys : GetRead(k)
    \/ \E g \in lruGets : GetMove(g)
    \/ \E k \in LruKeys : Delete(k)
    \/ \E k \in LruKeys : AsyncDelete(k)
    \/ \E order \in RangeOrders(DOMAIN lruItems) : Clear(order)
    \/ ReaperRecv
    \/ \E order \in RangeOrders(DOMAIN lruExp) : ReaperTick(order)
    \/ Tick

\* The store with writers, the reaper and callers of Close.
NextLRUClose ==
    \/ \E k \in LruKeys, v \in LruValues, d \in Durations : SetWithExpiration(k, v, d)
    \/ \E k \in LruKeys : Delete(k)
    \/ ReaperRecv
    \/ \E order \in RangeOrders(DOMAIN lruExp) : ReaperTick(order)
    \/ ReaperStop
    \/ \E c \in Closers : CloseEnter(c)
    \/ \E c \in Closers : CloseLatch(c)
    \/ Tick

(***************************************************************************)
(* Group: Get, Set, Delete, Clear, Close                                   *)
(***************************************************************************)
GrThreads == 1 .. NThreads
GrKeys == {"", "k"}
GrValues == {"", "v"}
\* No caller leads a load for the key.
NoThread == 0
GrAbsent == "<absent>"
\* What the getter returns for a key.
SourceValue == "src"
ErrGroupClosed == "group is closed"
ErrCacheGroupClosed == "cache group is closed"
ErrKeyEmpty == "key is empty"
ErrKeyOrValueEmpty == "key is empty or value is empty"
ErrGetter == "failed to get from getter"
ErrGroupNotFound == "group not found"
NoError == "nil"
\* Clear has no result.
NoResult == "-"
NoLoad == [val |-> "", err |-> "none"]

\* seq, fetched and picked are history: how many calls had returned when
\* this one was made, whether it invoked the getter, and what the picker
\* answered in its loadData.
IdleThread ==
    [op |-> "none", key |-> "", val |-> "", marker |-> FALSE, pc |-> "idle",
     ret |-> [val |-> "", err |-> NoResult], afterClose |-> FALSE,
     acted |-> FALSE, call |-> NoThread, seq |-> 0, fetched |-> FALSE,
     picked |-> "none"]

\* Cache.Get(ctx, key): the view held for the key, if any.
cacheGet(c, k) == c[k]
\* Cache.Add(key, view)
cacheAdd(c, k, v) == [c EXCEPT ![k] = v]
\* Cache.Delete(key)
cacheDelete(c, k) == [c EXCEPT ![k] = GrAbsent]
\* Cache.Clear()
cacheClear(c) == [k \in DOMAIN c |-> GrAbsent]

GrFrame == UNCHANGED <<sfVars, clVars, lruVars, rdVars, pkVars, svVars, bvVars, regVars>>

\* The group that NewGroup(name, cacheBytes, getter, opts...) returns.
IdleGroup ==
    /\ grClosed = 0
    /\ grRegistered = TRUE
    /\ grCache = [k \in GrKeys |-> GrAbsent]
    /\ grCacheCloses = 0
    /\ grRegDeletes = 0
    /\ grFlight = [k \in GrKeys |-> NoThread]
    /\ grFlightRes = [t \in GrThreads |-> NoLoad]
    /\ grStats = [loads |-> 0, localHits |-> 0, peerHits |-> 0, peerMisses |-> 0,
                  loaderHits |-> 0, loaderErrors |-> 0]
    /\ grTasks = 0
    /\ grThread = [t \in GrThreads |-> IdleThread]

\* A Close of the group has returned.
CloseReturned ==
    \E t \in GrThreads : grThread[t].op = "close" /\ grThread[t].pc = "done"

Finish(t, val, err) ==
    [grThread EXCEPT ![t].pc = "done", ![t].ret = [val |-> val, err |-> err]]

\* The number of calls that have returned.
Returned == Cardinality({u \in GrThreads : grThread[u].pc = "done"})

\* A caller calls one of the group's methods.
GrCall(t, op, k, v, marker) ==
    /\ grThread[t].pc = "idle"
    /\ grThread' = [grThread EXCEPT ![t] =
                      [IdleThread EXCEPT !.op = op, !.key = k, !.val = v,
                                         !.marker = marker, !.pc = "check",
                                         !.afterClose = CloseReturned,
                                         !.seq = Returned]]
    /\ UNCHANGED <<grClosed, grRegistered, grHasPeers, grCache, grCacheCloses,
                   grRegDeletes, grFlight, grFlightRes, grStats, grTasks>>
    /\ GrFrame

\* The handler of the Server that GetGroup found no group for.
ServerOp(op) ==
    CASE op = "get" -> "Server.Get" [] op = "set" -> "Server.Set"
      [] op = "delete" -> "Server.Delete"

\* Server.Get, Server.Set or Server.Delete for this group's name: GetGroup
\* looks the name up in the registry; without an entry the handler returns
\* "group ... not found", otherwise it calls the group's method (Server.Set
\* with the from_peer value in ctx).
ServerCall(t, op, k, v) ==
    /\ grThread[t].pc = "idle"
    /\ grThread' = [grThread EXCEPT ![t] =
                      IF grRegistered
                      THEN [IdleThread EXCEPT !.op = op, !.key = k, !.val = v,
                                              !.marker = (op = "set"), !.pc = "check",
                                              !.afterClose = CloseReturned,
                                              !.seq = Returned]
                      ELSE [IdleThread EXCEPT !.op = ServerOp(op), !.key = k, !.val = v,
                                              !.pc = "done",
                                              !.ret = [val |-> "", err |-> ErrGroupNotFound],
                                              !.afterClose = CloseReturned,
                                              !.seq = Returned]]
    /\ UNCHANGED <<grClosed, grRegistered, grHasPeers, grCache, grCacheCloses,
                   grRegDeletes, grFlight, grFlightRes, grStats, grTasks>>
    /\ GrFrame

\* A variant of isClosed that never sees the flag set.
isClosedNever == FALSE

\* atomic.LoadInt32(&g.closed) == 1
isClosed == grClosed = 1

\* A variant of GetCheck without the key check.
GetCheckAnyKey(t) ==
    /\ grThread[t].pc = "check" /\ grThread[t].op = "get"
    /\ grThread' =
          IF isClosed THEN Finish(t, "", ErrGroupClosed)
          ELSE [grThread EXCEPT ![t].pc = "probe"]
    /\ UNCHANGED <<grClosed, grRegistered, grHasPeers, grCache, grCacheCloses,
                   grRegDeletes, grFlight, grFlightRes, grStats, grTasks>>
    /\ GrFrame

\* Get: the closed check and the key check.
GetCheck(t) ==
    /\ grThread[t].pc = "check" /\ grThread[t].op = "get"
    /\ grThread' =
          IF isClosed THEN Finish(t, "", ErrGroupClosed)
          ELSE IF grThread[t].key = "" THEN Finish(t, "", ErrKeyEmpty)
          ELSE [grThread EXCEPT ![t].pc = "probe"]
    /\ UNCHANGED <<grClosed, grRegistered, grHasPeers, grCache, grCacheCloses,
                   grRegDeletes, grFlight, grFlightRes, grStats, grTasks>>
    /\ GrFrame

\* Get: g.mainCache.Get; a hit counts as a local hit and returns.
GetProbe(t) ==
    /\ grThread[t].pc = "probe"
    /\ LET k == grThread[t].key IN
       IF cacheGet(grCache, k) # GrAbsent
       THEN /\ grStats' = [grStats EXCEPT !.localHits = @ + 1]
            /\ grThread' = [Finish(t, cacheGet(grCache, k), NoError)
                               EXCEPT ![t].acted = TRUE]
       ELSE /\ grThread' = [grThread EXCEPT ![t].pc = "load", ![t].acted = TRUE]
            /\ UNCHANGED grStats
    /\ UNCHANGED <<grClosed, grRegistered, grHasPeers, grCache, grCacheCloses,
                   grRegDeletes, grFlight, grFlightRes, grTasks>>
    /\ GrFrame

\* load: g.loader.Do(key, fn) takes the map lock; the caller leads the load
\* or waits for the one in flight.
LoadEnter(t) ==
    /\ grThread[t].pc = "load"
    /\ LET k == grThread[t].key IN
       IF grFlight[k] # NoThread
       THEN /\ grThread' = [grThread EXCEPT ![t].pc = "wait", ![t].call = grFlight[k]]
            /\ UNCHANGED <<grFlight, grFlightRes>>
       ELSE /\ grFlight' = [grFlight EXCEPT ![k] = t]
            /\ grFlightRes' = [grFlightRes EXCEPT ![t] = NoLoad]
            /\ grThread' = [grThread EXCEPT ![t].pc = "fetch", ![t].call = t]
    /\ UNCHANGED <<grClosed, grRegistered, grHasPeers, grCache, grCacheCloses,
                   grRegDeletes, grStats, grTasks>>
    /\ GrFrame

\* loadData when the picker names a remote owner: Client.GetFromPeer panics,
\* so fn never returns and the call record stays in the map.
LoadFromPeer(t) ==
    /\ grThread[t].pc = "fetch"
    /\ grHasPeers
    /\ grThread' = [grThread EXCEPT ![t].pc = "panic", ![t].picked = "remote"]
    /\ UNCHANGED <<grClosed, grRegistered, grHasPeers, grCache, grCacheCloses,
                   grRegDeletes, grFlight, grFlightRes, grStats, grTasks>>
    /\ GrFrame

\* loadData without a remote owner: g.getter.Get returns bytes or an error;
\* then Do stores the result, releases the waiters and deletes the record.
LoadFromGetter(t, ok) ==
    /\ grThread[t].pc = "fetch"
    /\ LET k == grThread[t].key IN
       /\ grFlightRes' = [grFlightRes EXCEPT ![t] =
                             IF ok THEN [val |-> SourceValue, err |-> NoError]
                             ELSE [val |-> "", err |-> ErrGetter]]
       /\ grFlight' = [grFlight EXCEPT ![k] = NoThread]
       /\ grStats' = IF ok THEN [grStats EXCEPT !.loaderHits = @ + 1] ELSE grStats
    /\ grThread' = [grThread EXCEPT ![t].pc = "post", ![t].fetched = TRUE,
                                     ![t].picked = "local"]
    /\ UNCHANGED <<grClosed, grRegistered, grHasPeers, grCache, grCacheCloses,
                   grRegDeletes, grTasks>>
    /\ GrFrame

\* A waiter of Do is released once the leader has stored its result.
LoadWait(t) ==
    /\ grThread[t].pc = "wait"
    /\ grFlightRes[grThread[t].call].err # "none"
    /\ grThread' = [grThread EXCEPT ![t].pc = "post"]
    /\ UNCHANGED <<grClosed, grRegistered, grHasPeers, grCache, grCacheCloses,
                   grRegDeletes, grFlight, grFlightRes, grStats, grTasks>>
    /\ GrFrame

\* A variant of loadFailed that takes every result for a success.
loadFailedNever(r) == FALSE

\* load: if err != nil
loadFailed(r) == r.err # NoError

\* A variant of LoadPost that returns the view without adding it to the cache.
LoadPostNoAdd(t) ==
    /\ grThread[t].pc = "post"
    /\ LET r == grFlightRes[grThread[t].call]
       IN  IF loadFailed(r)
           THEN /\ grStats' = [grStats EXCEPT !.loads = @ + 1, !.loaderErrors = @ + 1]
                /\ grThread' = Finish(t, "", r.err)
           ELSE /\ grStats' = [grStats EXCEPT !.loads = @ + 1]
                /\ grThread' = Finish(t, r.val, NoError)
    /\ UNCHANGED <<grClosed, grRegistered, grHasPeers, grCache, grCacheCloses,
                   grRegDeletes, grFlight, grFlightRes, grTasks>>
    /\ GrFrame

\* load after Do returned: loads is counted; an error is counted and returned,
\* a value is added to the cache and returned.
LoadPost(t) ==
    /\ grThread[t].pc = "post"
    /\ LET r == grFlightRes[grThread[t].call]
           k == grThread[t].key
       IN  IF loadFailed(r)
           THEN /\ grStats' = [grStats EXCEPT !.loads = @ + 1, !.loaderErrors = @ + 1]
                /\ grThread' = Finish(t, "", r.err)
                /\ UNCHANGED grCache
           ELSE /\ grStats' = [grStats EXCEPT !.loads = @ + 1]
                /\ grCache' = cacheAdd(grCache, k, r.val)
                /\ grThread' = Finish(t, r.val, NoError)
    /\ UNCHANGED <<grClosed, grRegistered, grHasPeers, grCacheCloses,
                   grRegDeletes, grFlight, grFlightRes, grTasks>>
    /\ GrFrame

\* Set: the closed check and the argument check.
SetCheck(t) ==
    /\ grThread[t].pc = "check" /\ grThread[t].op = "set"
    /\ grThread' =
          IF isClosed THEN Finish(t, "", ErrCacheGroupClosed)
          ELSE IF grThread[t].key = "" \/ Len(grThread[t].val) = 0
               THEN Finish(t, "", ErrKeyOrValueEmpty)
          ELSE [grThread EXCEPT ![t].pc = "apply"]
    /\ UNCHANGED <<grClosed, grRegistered, grHasPeers, grCache, grCacheCloses,
                   grRegDeletes, grFlight, grFlightRes, grStats, grTasks>>
    /\ GrFrame

\* if !isPeerRequest && g.peers != nil { go g.syncToPeers(...) }
launchesSync(marker) == ~marker /\ grHasPeers

\* Set: the value is added to the cache and the sync is launched.
SetApply(t) ==
    /\ grThread[t].pc = "apply" /\ grThread[t].op = "set"
    /\ grCache' = cacheAdd(grCache, grThread[t].key, grThread[t].val)
    /\ grTasks' = IF launchesSync(grThread[t].marker) THEN grTasks + 1 ELSE grTasks
    /\ grThread' = [Finish(t, "", NoError) EXCEPT ![t].acted = TRUE]
    /\ UNCHANGED <<grClosed, grRegistered, grHasPeers, grCacheCloses,
                   grRegDeletes, grFlight, grFlightRes, grStats>>
    /\ GrFrame

\* Delete: the closed check and the key check.
DeleteCheck(t) ==
    /\ grThread[t].pc = "check" /\ grThread[t].op = "delete"
    /\ grThread' =
          IF isClosed THEN Finish(t, "", ErrCacheGroupClosed)
          ELSE IF grThread[t].key = "" THEN Finish(t, "", ErrKeyEmpty)
          ELSE [grThread EXCEPT ![t].pc = "apply"]
    /\ UNCHANGED <<grClosed, grRegistered, grHasPeers, grCache, grCacheCloses,
                   grRegDeletes, grFlight, grFlightRes, grStats, grTasks>>
    /\ GrFrame

\* A variant of DeleteApply that leaves the cache as it is.
DeleteApplyKeep(t) ==
    /\ grThread[t].pc = "apply" /\ grThread[t].op = "delete"
    /\ grTasks' = IF launchesSync(grThread[t].marker) THEN grTasks + 1 ELSE grTasks
    /\ grThread' = [Finish(t, "", NoError) EXCEPT ![t].acted = TRUE]
    /\ UNCHANGED <<grClosed, grRegistered, grHasPeers, grCache, grCacheCloses,
                   grRegDeletes, grFlight, grFlightRes, grStats>>
    /\ GrFrame

\* Delete: the key is deleted from the cache and the sync is launched.
DeleteApply(t) ==
    /\ grThread[t].pc = "apply" /\ grThread[t].op = "delete"
    /\ grCache' = cacheDelete(grCache, grThread[t].key)
    /\ grTasks' = IF launchesSync(grThread[t].marker) THEN grTasks + 1 ELSE grTasks
    /\ grThread' = [Finish(t, "", NoError) EXCEPT ![t].acted = TRUE]
    /\ UNCHANGED <<grClosed, grRegistered, grHasPeers, grCacheCloses,
                   grRegDeletes, grFlight, grFlightRes, grStats>>
    /\ GrFrame

\* Clear: the closed check; Clear returns nothing.
ClearCheck(t) ==
    /\ grThread[t].pc = "check" /\ grThread[t].op = "clear"
    /\ grThread' =
          IF isClosed THEN Finish(t, "", NoResult)
          ELSE [grThread EXCEPT ![t].pc = "apply"]
    /\ UNCHANGED <<grClosed, grRegistered, grHasPeers, grCache, grCacheCloses,
                   grRegDeletes, grFlight, grFlightRes, grStats, grTasks>>
    /\ GrFrame

\* Clear: g.mainCache.Clear()
ClearApply(t) ==
    /\ grThread[t].pc = "apply" /\ grThread[t].op = "clear"
    /\ grCache' = cacheClear(grCache)
    /\ grThread' = [Finish(t, "", NoResult) EXCEPT ![t].acted = TRUE]
    /\ UNCHANGED <<grClosed, grRegistered, grHasPeers, grCacheCloses,
                   grRegDeletes, grFlight, grFlightRes, grStats, grTasks>>
    /\ GrFrame

\* Close: atomic.CompareAndSwapInt32(&g.closed, 0, 1); the loser returns nil.
CloseCas(t) ==
    /\ grThread[t].pc = "check" /\ grThread[t].op = "close"
    /\ IF grClosed = 0
       THEN /\ grClosed' = 1
            /\ grThread' = [grThread EXCEPT ![t].pc = "closecache"]
       ELSE /\ grThread' = Finish(t, "", NoError)
            /\ UNCHANGED grClosed
    /\ UNCHANGED <<grRegistered, grHasPeers, grCache, grCacheCloses,
                   grRegDeletes, grFlight, grFlightRes, grStats, grTasks>>
    /\ GrFrame

\* Close: g.mainCache.Close()
CloseCache(t) ==
    /\ grThread[t].pc = "closecache"
    /\ grCacheCloses' = grCacheCloses + 1
    /\ grThread' = [grThread EXCEPT ![t].pc = "unregister", ![t].acted = TRUE]
    /\ UNCHANGED <<grClosed, grRegistered, grHasPeers, grCache,
                   grRegDeletes, grFlight, grFlightRes, grStats, grTasks>>
    /\ GrFrame

\* Close: delete(groups, g.name) under groupsMu, then return nil.
CloseUnregister(t) ==
    /\ grThread[t].pc = "unregister"
    /\ grRegistered' = FALSE
    /\ grRegDeletes' = grRegDeletes + 1
    /\ grThread' = Finish(t, "", NoError)
    /\ UNCHANGED <<grClosed, grHasPeers, grCache, grCacheCloses,
                   grFlight, grFlightRes, grStats, grTasks>>
    /\ GrFrame

\* A goroutine launched by "go g.syncToPeers(...)" runs to its end.
SyncRuns ==
    /\ grTasks > 0
    /\ grTasks' = grTasks - 1
    /\ UNCHANGED <<grClosed, grRegistered, grHasPeers, grCache, grCacheCloses,
                   grRegDeletes, grFlight, grFlightRes, grStats, grThread>>
    /\ GrFrame

NextGroup ==
    \/ \E t \in GrThreads, k \in GrKeys : GrCall(t, "get", k, "", FALSE)
    \/ \E t \in GrThreads, k \in GrKeys, v \in GrValues, mk \in BOOLEAN :
          GrCall(t, "set", k, v, mk)
    \/ \E t \in GrThreads, k \in GrKeys, mk \in BOOLEAN : GrCall(t, "delete", k, "", mk)
    \/ \E t \in GrThreads : GrCall(t, "clear", "", "", FALSE)
    \/ \E t \in GrThreads : GrCall(t, "close", "", "", FALSE)
    \/ \E t \in GrThreads, k \in GrKeys : ServerCall(t, "get", k, "")
    \/ \E t \in GrThreads, k \in GrKeys, v \in GrValues : ServerCall(t, "set", k, v)
    \/ \E t \in GrThreads, k \in GrKeys : ServerCall(t, "delete", k, "")
    \/ \E t \in GrThreads : GetCheck(t)
    \/ \E t \in GrThreads : GetProbe(t)
    \/ \E t \in GrThreads : LoadEnter(t)
    \/ \E t \in GrThreads : LoadFromPeer(t)
    \/ \E t \in GrThreads, ok \in BOOLEAN : LoadFromGetter(t, ok)
    \/ \E t \in GrThreads : LoadWait(t)
    \/ \E t \in GrThreads : LoadPost(t)
    \/ \E t \in GrThreads : SetCheck(t)
    \/ \E t \in GrThreads : SetApply(t)
    \/ \E t \in GrThreads : DeleteCheck(t)
    \/ \E t \in GrThreads : DeleteApply(t)
    \/ \E t \in GrThreads : ClearCheck(t)
    \/ \E t \in GrThreads : ClearApply(t)
    \/ \E t \in GrThreads : CloseCas(t)
    \/ \E t \in GrThreads : CloseCache(t)
    \/ \E t \in GrThreads : CloseUnregister(t)
    \/ SyncRuns

(***************************************************************************)
(* The read path of the cluster: Group.Get on a node, called by the        *)
(* application or by the node's Server.Get for a request that arrived over *)
(* the transport.  A call is taken as one step; the interleavings of the   *)
(* calls on one node are the subject of the Group section.                 *)
(***************************************************************************)
\* What the getter of every node returns for a key.
GetterValue == "data"
NoSet == [node |-> "none", value |-> ""]
NoRead == [node |-> "none", key |-> "", srv |-> FALSE, out |-> "none", val |-> "",
           after |-> NoSet]
ZeroStats == [loads |-> 0, localHits |-> 0, peerHits |-> 0, peerMisses |-> 0,
              loaderHits |-> 0, loaderErrors |-> 0]

RdFrame == UNCHANGED <<sfVars, lruVars, grVars, pkVars, svVars, bvVars, regVars>>

IdleRd ==
    /\ rdStats = [n \in Nodes |-> ZeroStats]
    /\ rdCount = 0
    /\ rdLast = NoRead

\* The cluster when the nodes in live are registered and every node has
\* discovered the other registered nodes.
RouteCl(live) ==
    /\ clCache = [n \in Nodes |-> [k \in ClKeys \ {""} |-> Absent]]
    /\ clRing = [n \in Nodes |-> live \ {n}]
    /\ clClients = [n \in Nodes |-> live \ {n}]
    /\ clHosted = [n \in Nodes |-> TRUE]
    /\ clTasks = {}
    /\ clRpcs = {}
    /\ clOps = 0
    /\ clOrigin = [o \in ClientOps |-> NoOrigin]
    /\ clSent = [o \in ClientOps |-> <<>>]
    /\ clSynced = [o \in ClientOps |-> "none"]
    /\ clSrvSeen = {}
    /\ clPeerSyncs = [op \in {"set", "delete"} |-> 0]
    /\ clEvents = 0

\* The one Set(k, v) made so far, on a node other than n, has returned and
\* its sync has run to the end, and no Get was made before (history).
SyncedSet(n, k) ==
    IF /\ rdCount = 0 /\ clOps = 1 /\ clTasks = {} /\ clRpcs = {}
       /\ clOrigin[1].op = "set" /\ clOrigin[1].key = k /\ clOrigin[1].node # n
       /\ k # "" /\ clSynced[1] \in {"sent", "nopeer"}
    THEN [node |-> clOrigin[1].node, value |-> clCache[clOrigin[1].node][k]]
    ELSE NoSet

\* Group.Get(ctx, key) on node n, srv saying that Server.Get made the call;
\* getterOk says whether the getter, if it is reached, returns bytes.
\* A hit returns the cached view.  On a miss loadData asks the picker; when
\* it names a remote owner, peer.GetFromPeer panics; otherwise the getter is
\* called and its bytes are cached.
GroupGet(n, k, srv, getterOk) ==
    LET note(out, val) == [node |-> n, key |-> k, srv |-> srv, out |-> out,
                           val |-> val, after |-> SyncedSet(n, k)]
        pick == PickPeer(n, k)
    IN  /\ rdCount' = rdCount + 1
        /\ IF k = ""
           THEN /\ rdLast' = note("keyempty", "")
                /\ UNCHANGED <<clCache, rdStats>>
           ELSE IF clCache[n][k] # Absent
           THEN /\ rdStats' = [rdStats EXCEPT ![n].localHits = @ + 1]
                /\ rdLast' = note("hit", clCache[n][k])
                /\ UNCHANGED clCache
           ELSE IF pick.ok /\ ~pick.self
           THEN /\ rdLast' = note("panic", "")
                /\ UNCHANGED <<clCache, rdStats>>
           ELSE IF getterOk
           THEN /\ rdStats' = [rdStats EXCEPT ![n].loaderHits = @ + 1,
                                              ![n].loads = @ + 1]
                /\ clCache' = [clCache EXCEPT ![n][k] = GetterValue]
                /\ rdLast' = note("getter", GetterValue)
           ELSE /\ rdStats' = [rdStats EXCEPT ![n].loaderErrors = @ + 1,
                                              ![n].loads = @ + 1]
                /\ rdLast' = note("getterError", "")
                /\ UNCHANGED clCache

\* The application calls group.Get(ctx, k) on node n.
ClientGet(n, k, getterOk) ==
    /\ rdCount < MaxReads
    /\ clHosted[n]
    /\ GroupGet(n, k, FALSE, getterOk)
    /\ UNCHANGED <<clRing, clClients, clHosted, clTasks, clRpcs, clOps, clOrigin,
                   clSent, clSynced, clSrvSeen, clPeerSyncs, clEvents>>
    /\ RdFrame

\* Server.Get on node n for a Get request that a peer's client sent:
\* GetGroup, then group.Get(ctx, req.Key).
ServerGet(n, k, getterOk) ==
    /\ rdCount < MaxReads
    /\ IF ~clHosted[n]
       THEN /\ rdCount' = rdCount + 1
            /\ rdLast' = [NoRead EXCEPT !.node = n, !.key = k, !.srv = TRUE,
                                        !.out = "nogroup"]
            /\ UNCHANGED <<clCache, rdStats>>
       ELSE GroupGet(n, k, TRUE, getterOk)
    /\ UNCHANGED <<clRing, clClients, clHosted, clTasks, clRpcs, clOps, clOrigin,
                   clSent, clSynced, clSrvSeen, clPeerSyncs, clEvents>>
    /\ RdFrame

\* Writes and reads on a cluster whose transport delivers every request.
NextRoute ==
    \/ \E n \in Nodes, k \in ClKeys, v \in ClValues : ClientSet(n, k, v)
    \/ \E t \in clTasks : syncToPeers(t)
    \/ \E m \in clRpcs : ServerSet(m)
    \/ \E n \in Nodes, k \in ClKeys, ok \in BOOLEAN : ClientGet(n, k, ok)
    \/ \E n \in Nodes, k \in ClKeys, ok \in BOOLEAN : ServerGet(n, k, ok)

(***************************************************************************)
(* ClientPicker: fetchAllServices, the watch loop and PickPeer of the node *)
(* at PkSelf, and the registrations in the coordination store.             *)
(***************************************************************************)
\* p.selfAddr
PkSelf == "A"
PkKeys == {"k0", "k1", "k2"}
\* No entry in p.clients.
NoClient == 0
\* string(event.Kv.Value): an address, or the empty string.
EventValues == Nodes \cup {""}

PkFrame == UNCHANGED <<sfVars, clVars, lruVars, grVars, rdVars, svVars, bvVars, regVars>>

\* The picker that NewClientPicker has built before startServiceDiscovery,
\* with any set of nodes registered already.
IdlePk ==
    /\ pkStore \in SUBSET Nodes
    /\ pkStarted = FALSE
    /\ pkClients = [a \in EventValues |-> NoClient]
    /\ pkRing = {}
    /\ pkMade = <<>>
    /\ pkClosed = {}
    /\ pkQueue = <<>>
    /\ pkEvents = 0
    /\ pkGone = {}
    /\ pkSeen = {}

\* consHash.Add(addr)
ringAdd(ring, addr) == ring \cup {addr}
\* consHash.Remove(addr)
ringRemove(ring, addr) == ring \ {addr}

\* The state of the picker that set, remove and the handlers work on.
PickerState ==
    [clients |-> pkClients, ring |-> pkRing, made |-> pkMade, closed |-> pkClosed,
     gone |-> pkGone, seen |-> pkSeen]

\* set(addr): when NewClient succeeds the client is stored and the address
\* added to the ring; otherwise the error is logged.
set(st, addr, created) ==
    IF created
    THEN [st EXCEPT !.made = Append(@, addr),
                    !.clients[addr] = Len(st.made) + 1,
                    !.ring = ringAdd(@, addr)]
    ELSE st

\* remove(addr)
remove(st, addr) ==
    [st EXCEPT !.ring = ringRemove(@, addr), !.clients[addr] = NoClient]

\* A variant of isSelfAddr that takes no address for the node's own.
isSelfAddrNever(addr) == FALSE

\* addr == p.selfAddr
isSelfAddr(addr) == addr = PkSelf

\* fetchAllServices: the loop over resp.Kvs, whose values are the addresses
\* in todo; created holds the addresses NewClient can connect to.
RECURSIVE fetchLoop(_, _, _)
fetchLoop(st, todo, created) ==
    IF todo = {} THEN st
    ELSE LET addr == CHOOSE a \in todo : \A b \in todo : NodeHash(a) <= NodeHash(b)
             next == IF addr # "" /\ ~isSelfAddr(addr)
                     THEN set(st, addr, addr \in created) ELSE st
         IN  fetchLoop(next, todo \ {addr}, created)

\* What the handling of one event is remembered as (history).
EventKind(st, e) ==
    IF isSelfAddr(e.value) THEN "self"
    ELSE IF e.type = "put"
         THEN (IF st.clients[e.value] # NoClient THEN "putKnown" ELSE "putNew")
         ELSE (IF st.clients[e.value] # NoClient THEN "deleteKnown" ELSE "deleteUnknown")

\* handleWatchEvents, one event of the loop: addr is the event's value; the
\* node's own address is skipped; a put for an address without a client
\* calls set; a delete for an address with a client closes the client and
\* calls remove.
handleEvent(st, e, created) ==
    LET addr == e.value
        noted == [st EXCEPT !.seen = @ \cup {EventKind(st, e)},
                            !.gone = IF e.type = "delete" THEN @ \cup {e.key}
                                     ELSE @ \ {e.key}]
    IN  IF isSelfAddr(addr) THEN noted
        ELSE IF e.type = "put"
        THEN (IF noted.clients[addr] = NoClient
              THEN set(noted, addr, addr \in created) ELSE noted)
        ELSE (IF noted.clients[addr] # NoClient
              THEN remove([noted EXCEPT !.closed = @ \cup {noted.clients[addr]}], addr)
              ELSE noted)

\* handleWatchEvents: for _, event := range events
RECURSIVE handleLoop(_, _, _)
handleLoop(st, events, created) ==
    IF events = <<>> THEN st
    ELSE handleLoop(handleEvent(st, Head(events), created), Tail(events), created)

Install(st) ==
    /\ pkClients' = st.clients
    /\ pkRing' = st.ring
    /\ pkMade' = st.made
    /\ pkClosed' = st.closed
    /\ pkGone' = st.gone
    /\ pkSeen' = st.seen

\* startServiceDiscovery: fetchAllServices reads the registrations, then the
\* watch is opened.
fetchAllServices(created) ==
    /\ ~pkStarted
    /\ pkStarted' = TRUE
    /\ Install(fetchLoop(PickerState, pkStore, created))
    /\ UNCHANGED <<pkStore, pkQueue, pkEvents>>
    /\ PkFrame

\* registry.Register of the node at addr: Put(key, addr) under
\* "/services/<svc>/<addr>"; an open watch sends a put event.
StorePut(addr) ==
    /\ pkEvents < MaxStoreEvents
    /\ pkEvents' = pkEvents + 1
    /\ pkStore' = pkStore \cup {addr}
    /\ pkQueue' = IF pkStarted
                  THEN Append(pkQueue, [type |-> "put", key |-> addr, value |-> addr])
                  ELSE pkQueue
    /\ UNCHANGED <<pkStarted, pkClients, pkRing, pkMade, pkClosed, pkGone, pkSeen>>
    /\ PkFrame

\* The lease of the node at addr is revoked or expires: its key is deleted
\* and an open watch sends a delete event.  The event names the key; its
\* value is empty as the deleted key has none, or the address when the
\* store sends the value that was deleted.
StoreDelete(addr, value) ==
    /\ pkEvents < MaxStoreEvents
    /\ addr \in pkStore
    /\ value \in {"", addr}
    /\ pkEvents' = pkEvents + 1
    /\ pkStore' = pkStore \ {addr}
    /\ pkQueue' = IF pkStarted
                  THEN Append(pkQueue, [type |-> "delete", key |-> addr, value |-> value])
                  ELSE pkQueue
    /\ UNCHANGED <<pkStarted, pkClients, pkRing, pkMade, pkClosed, pkGone, pkSeen>>
    /\ PkFrame

\* watchServiceChanges receives the first n events as one response and
\* handleWatchEvents handles them under the lock.
handleWatchEvents(n, created) ==
    /\ pkStarted
    /\ n \in 1 .. Len(pkQueue)
    /\ Install(handleLoop(PickerState, SubSeq(pkQueue, 1, n), created))
    /\ pkQueue' = SubSeq(pkQueue, n + 1, Len(pkQueue))
    /\ UNCHANGED <<pkStore, pkStarted, pkEvents>>
    /\ PkFrame

\* ClientPicker.PickPeer(key): (client, ok, self); peer is the address the
\* client connects to.
pickerPickPeer(k) ==
    LET addr == consHashGet(pkRing, k)
    IN  IF addr # "" /\ pkClients[addr] # NoClient
        THEN [peer |-> addr, client |-> pkClients[addr], ok |-> TRUE,
              self |-> isSelfAddr(addr)]
        ELSE [peer |-> "", client |-> NoClient, ok |-> FALSE, self |-> FALSE]

NextPicker ==
    \/ \E created \in SUBSET Nodes : fetchAllServices(created)
    \/ \E a \in Nodes : StorePut(a)
    \/ \E a \in Nodes, v \in EventValues : StoreDelete(a, v)
    \/ \E n \in 1 .. MaxStoreEvents, created \in SUBSET Nodes :
          handleWatchEvents(n, created)

(***************************************************************************)
(* Server.Start, Server.Stop and registry.Register on each node.           *)
(***************************************************************************)
SvFrame == UNCHANGED <<sfVars, clVars, lruVars, grVars, rdVars, pkVars, bvVars, regVars>>

\* NewServer has returned on every node: s.stopCh is open, nothing is
\* registered.
IdleSv ==
    /\ svPc = [n \in Nodes |-> "new"]
    /\ svStopCh = [n \in Nodes |-> FALSE]
    /\ svReg = [n \in Nodes |-> "none"]
    /\ svRegStop = [n \in Nodes |-> FALSE]
    /\ svCli = [n \in Nodes |-> FALSE]
    /\ svLease = [n \in Nodes |-> "none"]
    /\ svKey = [n \in Nodes |-> FALSE]
    /\ svAlive = [n \in Nodes |-> 0]

\* The channel Register was handed by Start: "stopCh := make(chan error)", a
\* channel of Start's own (line 140), which only Start's goroutine closes.
registerStopCh(n) == svRegStop[n]

\* Server.Start up to s.grpcServer.Serve(lis): listen, make the stop channel
\* for the registration, start the goroutine that calls registry.Register.
ServerStart(n, listenOk) ==
    /\ svPc[n] = "new"
    /\ IF listenOk
       THEN /\ svPc' = [svPc EXCEPT ![n] = "serving"]
            /\ svReg' = [svReg EXCEPT ![n] = "new"]
       ELSE /\ svPc' = [svPc EXCEPT ![n] = "failed"]
            /\ UNCHANGED svReg
    /\ UNCHANGED <<svStopCh, svRegStop, svCli, svLease, svKey, svAlive>>
    /\ SvFrame

\* registry.Register, one call of the coordination store at a time:
\* clientv3.New, Grant, Put, KeepAlive. On an error Register closes its client
\* and returns it, and Start's goroutine closes the stop channel it made.
Register(n, ok) ==
    /\ svReg[n] \in {"new", "grant", "put", "keepalive"}
    /\ IF ok
       THEN /\ svReg' = [svReg EXCEPT ![n] =
                   CASE @ = "new" -> "grant"
                     [] @ = "grant" -> "put"
                     [] @ = "put" -> "keepalive"
                     [] @ = "keepalive" -> "loop"]
            /\ svCli' = [svCli EXCEPT ![n] = TRUE]
            /\ svLease' = [svLease EXCEPT ![n] = IF svReg[n] = "grant" THEN "live" ELSE @]
            /\ svKey' = [svKey EXCEPT ![n] = IF svReg[n] = "put" THEN TRUE ELSE @]
            /\ UNCHANGED svRegStop
       ELSE /\ svReg' = [svReg EXCEPT ![n] = "failed"]
            /\ svCli' = [svCli EXCEPT ![n] = FALSE]
            /\ svRegStop' = [svRegStop EXCEPT ![n] = TRUE]
            /\ UNCHANGED <<svLease, svKey>>
    /\ UNCHANGED <<svPc, svStopCh, svAlive>>
    /\ SvFrame

\* The goroutine of Register, one pass of its select: on the stop channel it
\* revokes the lease (which deletes the key attached to it) and closes the
\* client; otherwise it takes a keepalive response.
RegisterLoop(n) ==
    /\ svReg[n] = "loop"
    /\ IF registerStopCh(n)
       THEN /\ svLease' = [svLease EXCEPT ![n] = "revoked"]
            /\ svKey' = [svKey EXCEPT ![n] = FALSE]
            /\ svCli' = [svCli EXCEPT ![n] = FALSE]
            /\ svReg' = [svReg EXCEPT ![n] = "done"]
            /\ UNCHANGED svAlive
       ELSE /\ svAlive' = [svAlive EXCEPT ![n] = (@ + 1) % (MaxKeepAlives + 1)]
            /\ UNCHANGED <<svLease, svKey, svCli, svReg>>
    /\ UNCHANGED <<svPc, svStopCh, svRegStop>>
    /\ SvFrame

\* A lease that nobody keeps alive runs out after its 10 seconds, and the key
\* attached to it is deleted.
LeaseExpires(n) ==
    /\ svLease[n] = "live"
    /\ svReg[n] = "failed"
    /\ svLease' = [svLease EXCEPT ![n] = "expired"]
    /\ svKey' = [svKey EXCEPT ![n] = FALSE]
    /\ UNCHANGED <<svPc, svStopCh, svReg, svRegStop, svCli, svAlive>>
    /\ SvFrame

\* Server.Stop: close(s.stopCh), GracefulStop, s.etcdCli.Close().
ServerStop(n) ==
    /\ svPc[n] = "serving"
    /\ svPc' = [svPc EXCEPT ![n] = "stopped"]
    /\ svStopCh' = [svStopCh EXCEPT ![n] = TRUE]
    /\ UNCHANGED <<svReg, svRegStop, svCli, svLease, svKey, svAlive>>
    /\ SvFrame

NextServer ==
    \/ \E n \in Nodes, listenOk \in BOOLEAN : ServerStart(n, listenOk)
    \/ \E n \in Nodes, ok \in BOOLEAN : Register(n, ok)
    \/ \E n \in Nodes : RegisterLoop(n)
    \/ \E n \in Nodes : LeaseExpires(n)
    \/ \E n \in Nodes : ServerStop(n)

(***************************************************************************)
(* ByteView: the views a group stores and returns, over a heap of buffers. *)
(***************************************************************************)
BvKeys == {"k", "j"}
Bytes == {"x", "y"}
Bufs == 1 .. MaxBufs
NoBuf == 0
Contents == UNION {[1 .. n -> Bytes] : n \in 0 .. MaxLen}
NoView == [data |-> NoBuf, want |-> <<>>]
NoSlice == [got |-> <<>>, want |-> <<>>]

BvFrame == UNCHANGED <<sfVars, clVars, lruVars, grVars, rdVars, pkVars, svVars, regVars>>

IdleBv ==
    /\ bvHeap = [b \in Bufs |-> <<>>]
    /\ bvNext = 0
    /\ bvHeld = {}
    /\ bvCache = [k \in BvKeys |-> NoBuf]
    /\ bvView = NoView
    /\ bvExpect = [k \in BvKeys |-> <<>>]
    /\ bvLast = NoSlice

\* A variant of cloneBytes that returns its argument.
cloneBytesShare(b) == b

\* cloneBytes(b): c := make([]byte, len(b)), the next buffer; copy(c, b) is
\* copyBytes below.
cloneBytes(b) == bvNext + 1

\* copy(c, b)
copyBytes(heap, c, b) == [heap EXCEPT ![c] = heap[b]]

\* The application, or the getter, makes a slice with bytes v.
AppMake(v) ==
    /\ bvNext < MaxBufs
    /\ bvNext' = bvNext + 1
    /\ bvHeap' = [bvHeap EXCEPT ![bvNext + 1] = v]
    /\ bvHeld' = bvHeld \cup {bvNext + 1}
    /\ UNCHANGED <<bvCache, bvView, bvExpect, bvLast>>
    /\ BvFrame

\* The application, or the getter, writes byte x at index i of a slice it holds.
AppWrite(b, i, x) ==
    /\ b \in bvHeld
    /\ i \in 1 .. Len(bvHeap[b])
    /\ bvHeap[b][i] # x
    /\ bvHeap' = [bvHeap EXCEPT ![b][i] = x]
    /\ UNCHANGED <<bvNext, bvHeld, bvCache, bvView, bvExpect, bvLast>>
    /\ BvFrame

\* Group.Set(ctx, k, value) with the slice b as value, on an open group:
\* rejects an empty value, else stores ByteView{data: cloneBytes(value)}.
ViewSet(k, b) ==
    /\ b \in bvHeld
    /\ bvNext < MaxBufs
    /\ IF Len(bvHeap[b]) = 0
       THEN UNCHANGED <<bvHeap, bvNext, bvCache, bvExpect>>
       ELSE /\ bvHeap' = copyBytes(bvHeap, cloneBytes(b), b)
            /\ bvNext' = bvNext + 1
            /\ bvCache' = cacheAdd(bvCache, k, cloneBytes(b))
            /\ bvExpect' = [bvExpect EXCEPT ![k] = bvHeap[b]]
    /\ UNCHANGED <<bvHeld, bvView, bvLast>>
    /\ BvFrame

\* Group.Get(ctx, k) on an open group: the view in the cache, or, on a miss,
\* ByteView{data: cloneBytes(bytes)} for the slice b the getter returned,
\* which is stored in the cache and returned.
ViewGet(k, b) ==
    /\ IF cacheGet(bvCache, k) # NoBuf
       THEN /\ bvView' = [data |-> cacheGet(bvCache, k), want |-> bvExpect[k]]
            /\ UNCHANGED <<bvHeap, bvNext, bvCache, bvExpect>>
       ELSE /\ b \in bvHeld
            /\ bvNext < MaxBufs
            /\ bvHeap' = copyBytes(bvHeap, cloneBytes(b), b)
            /\ bvNext' = bvNext + 1
            /\ bvCache' = cacheAdd(bvCache, k, cloneBytes(b))
            /\ bvExpect' = [bvExpect EXCEPT ![k] = bvHeap[b]]
            /\ bvView' = [data |-> cloneBytes(b), want |-> bvHeap[b]]
    /\ UNCHANGED <<bvHeld, bvLast>>
    /\ BvFrame

\* view.ByteSlice() on the view Get returned: cloneBytes(b.data), a slice the
\* application holds from now on.
ByteSlice ==
    /\ bvView # NoView
    /\ bvNext < MaxBufs
    /\ bvHeap' = copyBytes(bvHeap, cloneBytes(bvView.data), bvView.data)
    /\ bvNext' = bvNext + 1
    /\ bvHeld' = bvHeld \cup {cloneBytes(bvView.data)}
    /\ bvLast' = [got |-> bvHeap'[cloneBytes(bvView.data)], want |-> bvView.want]
    /\ UNCHANGED <<bvCache, bvView, bvExpect>>
    /\ BvFrame

NextView ==
    \/ \E v \in Contents : AppMake(v)
    \/ \E b \in Bufs, i \in 1 .. MaxLen, x \in Bytes : AppWrite(b, i, x)
    \/ \E k \in BvKeys, b \in Bufs : ViewSet(k, b)
    \/ \E k \in BvKeys, b \in Bufs : ViewGet(k, b)
    \/ ByteSlice

(***************************************************************************)
(* The registry of groups: NewGroup, GetGroup, Group.Close, DestroyGroup   *)
(* and DestroyAllGroups over the map groups and its lock groupsMu.         *)
(***************************************************************************)
Names == {"n", "m"}
GroupIds == 1 .. MaxGroups
RegThreads == 1 .. NRegThreads
NoGroup == 0
MuFree == 0

RegFrame == UNCHANGED <<sfVars, clVars, lruVars, grVars, rdVars, pkVars, svVars, bvVars>>

\* A goroutine that is in no call; todo holds the names DestroyAllGroups'
\* range has not produced yet, ret what DestroyGroup returned.
IdleRegThread ==
    [op |-> "none", pc |-> "idle", name |-> "", g |-> NoGroup, todo |-> {},
     ret |-> "none"]

\* The registry when the process starts: var groups = make(map[string]*Group).
IdleReg ==
    /\ regGroups = [n \in Names |-> NoGroup]
    /\ regMade = 0
    /\ regName = [g \in GroupIds |-> ""]
    /\ regClosed = [g \in GroupIds |-> 0]
    /\ regMu = MuFree
    /\ regThread = [t \in RegThreads |-> IdleRegThread]

\* GetGroup(name): groups[name] under groupsMu.RLock().
GetGroup(name) == regGroups[name]

\* NewGroup(name, ...): the new group is put into groups under groupsMu,
\* replacing a group registered under the same name.
NewGroup(name) ==
    /\ regMade < MaxGroups
    /\ regMu = MuFree
    /\ regMade' = regMade + 1
    /\ regName' = [regName EXCEPT ![regMade + 1] = name]
    /\ regGroups' = [regGroups EXCEPT ![name] = regMade + 1]
    /\ UNCHANGED <<regClosed, regMu, regThread>>
    /\ RegFrame

\* A goroutine calls g.Close(), DestroyGroup(name) or DestroyAllGroups().
RegCall(t, op, name, g) ==
    /\ regThread[t].pc = "idle"
    /\ op = "close" => g \in 1 .. regMade
    /\ regThread' = [regThread EXCEPT ![t] =
                        [IdleRegThread EXCEPT !.op = op, !.name = name, !.g = g,
                                              !.pc = IF op = "close" THEN "cas"
                                                     ELSE "dlock"]]
    /\ UNCHANGED <<regGroups, regMade, regName, regClosed, regMu>>
    /\ RegFrame

\* Where a goroutine goes on when g.Close() returns: to its caller, or to
\* the delete(groups, name) that follows g.Close() in DestroyGroup and
\* DestroyAllGroups.
CloseReturns(th) ==
    IF th.op = "close" THEN [th EXCEPT !.pc = "done"] ELSE [th EXCEPT !.pc = "ddelete"]

\* Group.Close: CompareAndSwapInt32(&g.closed, 0, 1); the loser returns nil,
\* the winner closes the cache and goes on to groupsMu.Lock().
RegCloseCas(t) ==
    /\ regThread[t].pc = "cas"
    /\ IF regClosed[regThread[t].g] = 0
       THEN /\ regClosed' = [regClosed EXCEPT ![regThread[t].g] = 1]
            /\ regThread' = [regThread EXCEPT ![t].pc = "lock"]
       ELSE /\ regThread' = [regThread EXCEPT ![t] = CloseReturns(@)]
            /\ UNCHANGED regClosed
    /\ UNCHANGED <<regGroups, regMade, regName, regMu>>
    /\ RegFrame

\* Group.Close: groupsMu.Lock(), which waits while any goroutine, this one
\* included, holds the lock.
RegCloseLock(t) ==
    /\ regThread[t].pc = "lock"
    /\ regMu = MuFree
    /\ regMu' = t
    /\ regThread' = [regThread EXCEPT ![t].pc = "delete"]
    /\ UNCHANGED <<regGroups, regMade, regName, regClosed>>
    /\ RegFrame

\* Group.Close: delete(groups, g.name); groupsMu.Unlock(); return nil.
RegCloseDelete(t) ==
    /\ regThread[t].pc = "delete"
    /\ regGroups' = [regGroups EXCEPT ![regName[regThread[t].g]] = NoGroup]
    /\ regMu' = MuFree
    /\ regThread' = [regThread EXCEPT ![t] = CloseReturns(@)]
    /\ UNCHANGED <<regMade, regName, regClosed>>
    /\ RegFrame

\* DestroyGroup and DestroyAllGroups: groupsMu.Lock(), held until the
\* function returns.  DestroyGroup looks the name up and returns false
\* without an entry; DestroyAllGroups starts its range over groups.
DestroyLock(t) ==
    /\ regThread[t].pc = "dlock"
    /\ regMu = MuFree
    /\ IF regThread[t].op = "destroyall"
       THEN /\ regMu' = t
            /\ regThread' = [regThread EXCEPT
                                ![t].todo = {n \in Names : regGroups[n] # NoGroup},
                                ![t].pc = "dnext"]
       ELSE IF regGroups[regThread[t].name] # NoGroup
       THEN /\ regMu' = t
            /\ regThread' = [regThread EXCEPT ![t].g = regGroups[regThread[t].name],
                                              ![t].pc = "cas"]
       ELSE /\ regMu' = MuFree
            /\ regThread' = [regThread EXCEPT ![t].ret = "false", ![t].pc = "done"]
    /\ UNCHANGED <<regGroups, regMade, regName, regClosed>>
    /\ RegFrame

\* DestroyAllGroups: the range produces the next name n and calls g.Close();
\* when it has produced them all the function returns and unlocks.
DestroyNext(t, n) ==
    /\ regThread[t].pc = "dnext"
    /\ IF regThread[t].todo = {}
       THEN /\ regMu' = MuFree
            /\ regThread' = [regThread EXCEPT ![t].pc = "done"]
       ELSE /\ n \in regThread[t].todo
            /\ regThread' = [regThread EXCEPT ![t].name = n, ![t].g = regGroups[n],
                                              ![t].todo = @ \ {n}, ![t].pc = "cas"]
            /\ UNCHANGED regMu
    /\ UNCHANGED <<regGroups, regMade, regName, regClosed>>
    /\ RegFrame

\* DestroyGroup and DestroyAllGroups: delete(groups, name) after g.Close()
\* has returned; DestroyGroup then returns true and unlocks.
DestroyDelete(t) ==
    /\ regThread[t].pc = "ddelete"
    /\ regGroups' = [regGroups EXCEPT ![regThread[t].name] = NoGroup]
    /\ IF regThread[t].op = "destroy"
       THEN /\ regMu' = MuFree
            /\ regThread' = [regThread EXCEPT ![t].ret = "true", ![t].pc = "done"]
       ELSE /\ regThread' = [regThread EXCEPT ![t].pc = "dnext"]
            /\ UNCHANGED regMu
    /\ UNCHANGED <<regMade, regName, regClosed>>
    /\ RegFrame

\* The steps of goroutine t.
RegStep(t) ==
    \/ RegCloseCas(t)
    \/ RegCloseLock(t)
    \/ RegCloseDelete(t)
    \/ DestroyLock(t)
    \/ \E n \in Names : DestroyNext(t, n)
    \/ DestroyDelete(t)

NextRegistry ==
    \/ \E name \in Names : NewGroup(name)
    \/ \E t \in RegThreads, g \in GroupIds : RegCall(t, "close", "", g)
    \/ \E t \in RegThreads, name \in Names : RegCall(t, "destroy", name, NoGroup)
    \/ \E t \in RegThreads : RegCall(t, "destroyall", "", NoGroup)
    \/ \E t \in RegThreads : RegCloseCas(t)
    \/ \E t \in RegThreads : RegCloseLock(t)
    \/ \E t \in RegThreads : RegCloseDelete(t)
    \/ \E t \in RegThreads : DestroyLock(t)
    \/ \E t \in RegThreads, n \in Names : DestroyNext(t, n)
    \/ \E t \in RegThreads : DestroyDelete(t)

(***************************************************************************)
(* Specifications.                                                         *)
(***************************************************************************)
\* The store's configuration is fixed at construction; where the store is
\* not the component under study it is unlimited and has no callback.
LRUConfigured == lruMax \in MaxBytesChoices /\ lruCbOn \in BOOLEAN
LRUDefault == lruMax = 0 /\ lruCbOn = FALSE
\* Whether a peer picker was registered with the group.
GroupConfigured == grHasPeers \in BOOLEAN
GroupDefault == grHasPeers = FALSE

InitSF == IdleSF /\ IdleCl /\ IdleLRU /\ LRUDefault /\ IdleGroup /\ GroupDefault /\
          IdleBv /\ IdleSv /\ IdleReg /\ IdleRd /\ IdlePk /\ pkStore = {}
SpecSF == InitSF /\ [][NextSF]_vars
\* Every goroutine that can take a step is eventually scheduled; fn need not
\* return.
FairSF == \A p \in Callers :
              /\ WF_vars(DoWgDone(p)) /\ WF_vars(DoDelete(p))
              /\ WF_vars(DoChanSend(p)) /\ WF_vars(DoChanWait(p))
SpecSFChan == InitSF /\ [][NextSFChan]_vars /\ FairSF

InitCluster == IdleSF /\ IdleCl /\ IdleLRU /\ LRUDefault /\ IdleGroup /\ GroupDefault /\
               IdleBv /\ IdleSv /\ IdleReg /\ IdleRd /\ IdlePk /\ pkStore = {}
SpecCluster == InitCluster /\ [][NextCluster]_vars
SpecClusterStable == InitCluster /\ [][NextClusterStable]_vars

InitLRU == IdleSF /\ IdleCl /\ IdleLRU /\ LRUConfigured /\ IdleGroup /\ GroupDefault /\
           IdleBv /\ IdleSv /\ IdleReg /\ IdleRd /\ IdlePk /\ pkStore = {}
SpecLRU == InitLRU /\ [][NextLRU]_vars
\* Every goroutine launched by "go c.Delete(key)" is eventually run.
FairLRU == \A k \in LruKeys : WF_vars(AsyncDelete(k))
SpecLRUFair == InitLRU /\ [][NextLRU]_vars /\ FairLRU

\* cleanupLoop is a goroutine of its own: it is scheduled again and again.
FairLRUClose ==
    /\ WF_vars(ReaperStop)
    /\ WF_vars(\E order \in RangeOrders(DOMAIN lruExp) : ReaperTick(order))
SpecLRUClose == InitLRU /\ [][NextLRUClose]_vars /\ FairLRUClose

InitGroup == IdleSF /\ IdleCl /\ IdleLRU /\ LRUDefault /\ IdleGroup /\ GroupConfigured /\
             IdleBv /\ IdleSv /\ IdleReg /\ IdleRd /\ IdlePk /\ pkStore = {}
SpecGroup == InitGroup /\ [][NextGroup]_vars

\* The registered nodes of the cluster: all three, A and C, or C alone.
Memberships == {Nodes, {"A", "C"}, {"C"}}
InitRoute ==
    /\ IdleSF /\ IdleLRU /\ LRUDefault /\ IdleGroup /\ GroupDefault
    /\ \E live \in Memberships : RouteCl(live)
    /\ IdleBv /\ IdleSv /\ IdleReg /\ IdleRd /\ IdlePk /\ pkStore = {}
SpecRoute == InitRoute /\ [][NextRoute]_vars

InitPicker ==
    /\ IdleSF /\ IdleCl /\ IdleLRU /\ LRUDefault /\ IdleGroup /\ GroupDefault
    /\ IdleBv /\ IdleSv /\ IdleReg /\ IdleRd /\ IdlePk
SpecPicker == InitPicker /\ [][NextPicker]_vars

\* The goroutines of Register and of Start are scheduled, and the
\* coordination store answers.
FairServer == \A n \in Nodes : WF_vars(RegisterLoop(n)) /\ WF_vars(Register(n, TRUE))
SpecServer == InitSF /\ [][NextServer]_vars /\ FairServer

SpecView == InitSF /\ [][NextView]_vars

\* Every goroutine that can take a step is scheduled.
FairRegistry == \A t \in RegThreads : WF_vars(RegStep(t))
SpecRegistry == InitSF /\ [][NextRegistry]_vars /\ FairRegistry

(***************************************************************************)
(* C1                                                                      *)
(***************************************************************************)
\* The callers that invoked Do with key k.
CallersOf(k) == {p \in Callers : sfPc[p] # "idle" /\ sfKey[p] = k}

\* The callers of k invoked Do concurrently: all but the first took the map
\* lock while the first one's fn was still executing.
Concurrent(k) ==
    /\ Cardinality({p \in CallersOf(k) : ~sfDuring[p]}) = 1
    /\ \A p \in CallersOf(k) : sfPc[p] = "ret"

\* C1: when N callers invoke Do(k, fn) concurrently with the same key k (each
\* but the first takes the map lock while fn is executing) and all have
\* returned, fn was invoked exactly once for k and all N callers returned the
\* same (value, error) pair, the one fn produced.
C1_SingleFlight ==
    \A k \in SfKeys :
        Concurrent(k) =>
            /\ sfFnCalls[k] = 1
            /\ \A p, q \in CallersOf(k) : sfRet[p] = sfRet[q]
            /\ \A p \in CallersOf(k) : sfRet[p] \in FnOutcomes

\* Three callers used the same key concurrently and all returned.
C1_Witness ==
    \E k \in SfKeys :
        /\ Concurrent(k)
        /\ Cardinality(CallersOf(k)) = NCallers
        /\ \E p \in CallersOf(k) : sfRet[p].err # "nil"

(***************************************************************************)
(* C2, C3                                                                  *)
(***************************************************************************)
\* C2: a Set originated locally on a node (ctx without the from-peer marker)
\* causes at most one Set RPC, sent by that node, and exactly one once its
\* syncToPeers has picked a remote owner; every Group.Set that a Server.Set
\* delegates to sees the from-peer marker and launches no further sync.
C2_SetUnicast ==
    /\ \A o \in ClientOps :
          clOrigin[o].op = "set" =>
              /\ Len(clSent[o]) <= 1
              /\ \A i \in 1 .. Len(clSent[o]) :
                    clSent[o][i].from = clOrigin[o].node /\ clSent[o][i].op = "set"
              /\ (clSynced[o] = "sent" => Len(clSent[o]) = 1)
    /\ \A r \in clSrvSeen : r.op = "set" => r.isPeer
    /\ clPeerSyncs["set"] = 0

\* In the full 3-node ring, a Set on A for a key that A's picker gives to B
\* was sent to B once, B's server applied it, and nothing is left in flight.
C2_Witness ==
    /\ \A n \in Nodes : clRing[n] = Nodes \ {n}
    /\ \E o \in ClientOps :
          /\ clOrigin[o] = [op |-> "set", node |-> "A", key |-> "k1"]
          /\ clSent[o] = <<[from |-> "A", to |-> "B", op |-> "set"]>>
          /\ clCache["B"]["k1"] = clCache["A"]["k1"]
          /\ clCache["B"]["k1"] # Absent
    /\ [op |-> "set", isPeer |-> TRUE] \in clSrvSeen
    /\ clTasks = {} /\ clRpcs = {}

\* C3: a Delete originated locally on a node causes at most one Delete RPC,
\* and the Group.Delete that a Server.Delete delegates to launches no further
\* sync.
C3_DeleteNoFurtherSync ==
    /\ \A o \in ClientOps :
          clOrigin[o].op = "delete" => Len(clSent[o]) <= 1
    /\ clPeerSyncs["delete"] = 0

(***************************************************************************)
(* C4 .. C9                                                                *)
(***************************************************************************)
\* C4: with maxBytes > 0, when Set or SetWithExpiration has just returned,
\* usedBytes <= maxBytes.
C4_CapacityBound ==
    (lruMax > 0 /\ lruLast.op = "set" /\ lruLast.ok) => lruUsed <= lruMax

\* C5: a Get(k) that directly follows a Set(k, v) that returned, with no
\* operation in between, returns (v, true).
C5_ReadYourWrite ==
    (lruLast.op = "get" /\ lruLast.after # "") =>
        (lruLast.ok /\ lruLast.val = lruLast.after)

RECURSIVE SumSizes(_)
SumSizes(ks) ==
    IF ks = {} THEN 0
    ELSE LET k == CHOOSE x \in ks : TRUE IN
         entrySize(lruEnt[lruItems[k]]) + SumSizes(ks \ {k})

\* C6: whenever no method holds the lock, usedBytes is the sum of
\* len(key) + value.Len() over the keys of c.items, the list holds exactly one
\* node per key of c.items (list length = map size), and usedBytes is 0 when
\* the store is empty.
C6_Accounting ==
    /\ lruUsed = SumSizes(DOMAIN lruItems)
    /\ lruLL.len = Cardinality(DOMAIN lruItems)
    /\ Len(Order(lruLL)) = lruLL.len
    /\ \A k \in DOMAIN lruItems :
          /\ lruEnt[lruItems[k]].key = k
          /\ Cardinality({i \in 1 .. Len(Order(lruLL)) :
                             lruEnt[Order(lruLL)[i]].key = k}) = 1
          /\ \E i \in 1 .. Len(Order(lruLL)) : Order(lruLL)[i] = lruItems[k]
    /\ (DOMAIN lruItems = {} => lruUsed = 0)

\* C7: a Get(k) issued when the time-to-live that SetWithExpiration(k, v, d),
\* d > 0, gave k has elapsed returns (nil, false); and once Get has found k
\* expired, k is eventually absent from c.items and from c.expiredTime.
C7_GetExpired ==
    (lruLast.op = "get" /\ lruHist[lruLast.key].kind = "ttl"
        /\ lruNow > lruHist[lruLast.key].at)
    => (~lruLast.ok /\ lruLast.val = NilValue /\ lruPend[lruLast.key] > 0)
LruAbsent(k) == k \notin DOMAIN lruItems /\ k \notin DOMAIN lruExp
C7_Expiry ==
    /\ []C7_GetExpired
    /\ \A k \in LruKeys : (lruPend[k] > 0) ~> LruAbsent(k)

\* SetWithExpiration(k, v, 1) ran, its time-to-live elapsed, and a Get(k)
\* has just found the entry expired and launched its removal.
C7_Witness ==
    \E k \in LruKeys :
        /\ lruLast.op = "get" /\ lruLast.key = k /\ ~lruLast.ok
        /\ lruHist[k].kind = "ttl" /\ lruNow > lruHist[k].at
        /\ k \in DOMAIN lruItems /\ k \in DOMAIN lruExp
        /\ lruPend[k] > 0

\* C8: once Set(k, v') has updated an entry that SetWithExpiration(k, v, d)
\* gave a time-to-live (no removal of k launched by an earlier Get being
\* outstanding), c.expiredTime has no k, a Get(k) returns (v', true) however
\* much time has passed, and k stays in the store until a Set, Delete, Clear
\* or capacity eviction replaces or removes it: neither a Get nor the reaper
\* removes it.
C8_UpdateClearsTTL ==
    \A k \in LruKeys :
        lruHist[k].kind = "cleared" =>
            /\ k \in DOMAIN lruItems
            /\ k \notin DOMAIN lruExp
            /\ lruPend[k] = 0
            /\ lruEnt[lruItems[k]].value = lruHist[k].val
            /\ (lruLast.op = "get" /\ lruLast.key = k) =>
                  (lruLast.ok /\ lruLast.val = lruHist[k].val)

\* The old time-to-live of k has elapsed after Set(k, v') cleared it, and a
\* Get(k) has just returned (v', true).
C8_Witness ==
    \E k \in LruKeys :
        /\ lruHist[k].kind = "cleared"
        /\ lruNow > lruHist[k].at
        /\ lruLast.op = "get" /\ lruLast.key = k /\ lruLast.ok
        /\ lruLast.val = lruHist[k].val

Without(entries, k) == SelectSeq(entries, LAMBDA en : en.key # k)

\* What C9 asks of one step of the store.
C9_Step ==
    LET before == OrderEntries(lruLL, lruEnt)
        after == OrderEntries(lruLL', lruEnt')
    IN  /\ (lruLast'.op = "set" /\ lruLast'.ok) =>
              LET moved == Append(Without(before, lruLast'.key),
                                  [key |-> lruLast'.key, value |-> lruLast'.val])
                  n == Len(moved) - Len(after)
              IN  /\ n >= 0
                  /\ after = SubSeq(moved, n + 1, Len(moved))
                  /\ lruCb' = IF lruCbOn THEN SubSeq(moved, 1, n) ELSE <<>>
                  /\ n > 0 => lruMax > 0
        /\ \A g \in lruGets \ lruGets' :
              (g.key \in DOMAIN lruItems /\ lruItems[g.key] = g.ele) =>
                  after = Append(Without(before, g.key), lruEnt[g.ele])

\* C9: a Set on k, and a successful Get(k) whose entry is still the entry of
\* k, move k to the back of the list and leave the order of the other
\* entries unchanged; a Set evicts from the front only, and onEvicted, when
\* configured, is called exactly once per evicted entry, in that order, with
\* the entry's key and value.
C9_RecencyOrder == [][C9_Step]_vars

(***************************************************************************)
(* C10                                                                     *)
(***************************************************************************)
ClosedErrors == {ErrGroupClosed, ErrCacheGroupClosed}

Active == {t \in GrThreads : grThread[t].pc # "idle"}
\* The callers whose call invoked the getter.
Fetchers == {t \in GrThreads : grThread[t].fetched}

\* The calls made so far were made one after the other: each has returned
\* and was made when exactly the earlier ones had returned.
Sequential ==
    /\ \A t \in Active : grThread[t].pc = "done"
    /\ \A t, u \in Active : t # u => grThread[t].seq # grThread[u].seq

\* u is the call made directly before t.
DirectlyBefore(u, t) ==
    u \in Active /\ t \in Active /\ grThread[u].seq + 1 = grThread[t].seq

\* C11: on a group without a peer picker whose getter succeeds, the first
\* Get(k) invokes the getter once (loaderHits = 1), caches the result and
\* returns it; a second Get(k) made after it returned yields the same bytes
\* from the cache (localHits = 1) without a further getter call.
C11_ReadThrough ==
    \A t1, t2 \in GrThreads :
        (/\ ~grHasPeers /\ Sequential /\ Active = {t1, t2}
         /\ DirectlyBefore(t1, t2)
         /\ grThread[t1].op = "get" /\ grThread[t2].op = "get"
         /\ grThread[t1].key # "" /\ grThread[t2].key = grThread[t1].key
         /\ grThread[t1].ret.err = NoError)
        => /\ grThread[t1].fetched
           /\ grThread[t1].ret = [val |-> SourceValue, err |-> NoError]
           /\ grThread[t2].ret = grThread[t1].ret
           /\ ~grThread[t2].fetched
           /\ Fetchers = {t1}
           /\ grStats.loaderHits = 1 /\ grStats.localHits = 1
           /\ cacheGet(grCache, grThread[t1].key) = SourceValue

\* Two Get("k") were made one after the other on a group without peers and
\* the second was served from the cache.
C11_Witness ==
    \E t1, t2 \in GrThreads :
        /\ ~grHasPeers /\ Sequential /\ Active = {t1, t2} /\ DirectlyBefore(t1, t2)
        /\ grThread[t1].op = "get" /\ grThread[t2].op = "get"
        /\ grThread[t1].key = "k" /\ grThread[t2].key = "k"
        /\ grThread[t1].fetched /\ ~grThread[t2].fetched
        /\ grThread[t2].ret = [val |-> SourceValue, err |-> NoError]
        /\ grStats.loaderHits = 1 /\ grStats.localHits = 1

\* Every caller made Get(k) and all of them shared the load led by one of
\* them, which succeeded.
Coalesced(k) ==
    /\ Active = GrThreads
    /\ \A t \in GrThreads :
          /\ grThread[t].op = "get" /\ grThread[t].key = k
          /\ grThread[t].pc = "done" /\ grThread[t].ret.err = NoError
    /\ \E l \in GrThreads : \A t \in GrThreads : grThread[t].call = l

\* C12: when the concurrent Get calls for one uncached key all overlap with
\* one getter call, they return the same bytes, the getter was invoked once
\* and the group's loads statistic is 1.
C12_Coalescing ==
    \A k \in GrKeys \ {""} :
        Coalesced(k) =>
            /\ \A t, u \in GrThreads : grThread[t].ret = grThread[u].ret
            /\ Cardinality(Fetchers) = 1
            /\ grStats.loads = 1

\* C13: on a single node (no remote owner), when the calls are made one
\* after the other, a Get(k) made directly after a Set(k, v) that succeeded
\* returns v without invoking the getter, and a Get(k) made directly after a
\* Delete(k) that succeeded invokes the getter exactly once.
C13_RoundTrip ==
    \A u, t \in GrThreads :
        (/\ Sequential /\ DirectlyBefore(u, t)
         /\ \A x \in Active : grThread[x].picked # "remote"
         /\ grThread[t].op = "get" /\ grThread[t].key = grThread[u].key
         /\ grThread[u].ret.err = NoError)
        => /\ grThread[u].op = "set" =>
                 /\ grThread[t].ret = [val |-> grThread[u].val, err |-> NoError]
                 /\ ~grThread[t].fetched
           /\ grThread[u].op = "delete" =>
                 /\ grThread[t].fetched
                 /\ grThread[t].call = t
                 /\ grThread[t].ret \in {[val |-> SourceValue, err |-> NoError],
                                         [val |-> "", err |-> ErrGetter]}

\* Set("k", "v"), Delete("k") and Get("k") were made one after the other and
\* the Get loaded the value from the getter.
C13_Witness ==
    \E s, u, t \in GrThreads :
        /\ Sequential /\ DirectlyBefore(s, u) /\ DirectlyBefore(u, t)
        /\ grThread[s].op = "set" /\ grThread[s].key = "k" /\ grThread[s].val = "v"
        /\ grThread[s].ret.err = NoError
        /\ grThread[u].op = "delete" /\ grThread[u].key = "k"
        /\ grThread[t].op = "get" /\ grThread[t].key = "k" /\ grThread[t].fetched
        /\ grThread[t].ret = [val |-> SourceValue, err |-> NoError]

\* What C14 asks of one step of the group.
C14_Step ==
    \A t \in GrThreads :
        /\ (grThread[t].pc = "fetch" /\ grThread'[t].pc = "post"
               /\ grFlightRes'[t].err # NoError)
           => /\ grCache' = grCache
              /\ grStats'.loaderHits = grStats.loaderHits
        /\ (grThread[t].pc = "post" /\ grThread'[t].pc = "done"
               /\ grFlightRes[grThread[t].call].err # NoError)
           => /\ grThread'[t].ret = [val |-> "", err |-> ErrGetter]
              /\ grStats'.loaderErrors = grStats.loaderErrors + 1
              /\ grCache' = grCache

C15_PeerFallThrough ==
    \A t \in GrThreads :
        grThread[t].picked = "remote" =>
            /\ grThread[t].pc # "panic"
            /\ grThread[t].pc = "done" =>
                  /\ grStats.peerMisses >= 1
                  /\ grThread[t].fetched
                  /\ grThread[t].ret.err \in {NoError, ErrGetter}

(***************************************************************************)
(* C16, C17                                                                *)
(***************************************************************************)
\* C16: a Get that a node's Server.Get hands to its group is answered from
\* the node's cache or, on a miss, by the node's own getter (or refused for
\* an empty key or an unknown group); the node does not hand it to a peer.
C16_ForwardStopsAtOwner ==
    (rdLast.srv /\ rdLast.out # "none") =>
        rdLast.out \in {"hit", "getter", "getterError", "keyempty", "nogroup"}

\* C17: with three nodes that know each other, when Set(k, v) on one node
\* has returned and its sync has run to the end, a Get(k) on another node
\* returns v and does not invoke that node's getter.
C17_RouteAndFetch ==
    (/\ rdLast.out # "none" /\ ~rdLast.srv
     /\ \A n \in Nodes : clRing[n] = Nodes \ {n}
     /\ rdLast.after # NoSet /\ rdLast.after.value # Absent)
    => /\ rdLast.out = "hit"
       /\ rdLast.val = rdLast.after.value
       /\ rdStats[rdLast.node].loaderHits = 0

(***************************************************************************)
(* C18 .. C20                                                              *)
(***************************************************************************)
\* The picker has handled every change of the store.
PickerSettled == pkStarted /\ pkQueue = <<>>

\* C18: PickPeer never returns a client for the node's own address; it
\* returns (_, true, self = true) exactly when the ring maps the key to the
\* node's own address; and a key whose owner among the registered nodes is
\* the node itself is reported as self, not as a remote peer or as without
\* owner.
C18_SelfRule ==
    \A k \in PkKeys :
        LET pick == pickerPickPeer(k) IN
        /\ pick.peer # PkSelf
        /\ (pick.ok /\ pick.self) <=> (consHashGet(pkRing, k) = PkSelf)
        /\ (PickerSettled /\ consHashGet(pkStore, k) = PkSelf) =>
              (pick.ok /\ pick.self)

\* C19: after fetchAllServices and after any events handled since, the
\* node's own address is neither in p.clients nor in the ring, and the
\* addresses with a client are the node-ids of the ring.
C19_Membership ==
    /\ pkClients[PkSelf] = NoClient
    /\ PkSelf \notin pkRing
    /\ {a \in EventValues : pkClients[a] # NoClient} = pkRing

\* The picker has handled an event for its own address, a put for a peer
\* it knew and a delete that removed a peer, and still knows a peer.
C19_Witness ==
    /\ PickerSettled
    /\ {"self", "putKnown", "deleteKnown"} \subseteq pkSeen
    /\ PkSelf \in pkStore
    /\ pkRing # {}

\* C20: once the delete event for a peer b has been handled (and no put for
\* b since), every client made for b is closed, b is in neither p.clients
\* nor the ring, and PickPeer returns no client of b for any key.
C20_Churn ==
    \A b \in pkGone \ {PkSelf} :
        /\ pkClients[b] = NoClient
        /\ b \notin pkRing
        /\ \A h \in 1 .. Len(pkMade) : pkMade[h] = b => h \in pkClosed
        /\ \A k \in PkKeys : pickerPickPeer(k).peer # b

(***************************************************************************)
(* C22, C23, C26, C27                                                      *)
(***************************************************************************)
\* fn of call record c has returned (c is named after the caller that made it).
FnReturned(c) == c # NoCall /\ sfPc[c] \notin {"idle", "run", "panic"}

\* The callers of k all used DoChan, concurrently (all but the first took the
\* map lock while fn was executing), and each has been sent its Result.
ChanBatch(k) ==
    /\ CallersOf(k) # {}
    /\ \A p \in CallersOf(k) : sfMode[p] = "DoChan" /\ sfPc[p] \in {"sent", "ret"}
    /\ Cardinality({p \in CallersOf(k) : ~sfDuring[p]}) = 1

\* C22: every channel returned by DoChan is sent at most one Result, and
\* exactly one once fn has returned, for the caller that installed the record
\* and for a caller that joined it alike; for N concurrent DoChan callers of
\* one key fn is invoked once (no send blocks: each channel has room for the
\* one Result it is sent).
C22_DoChanDelivery ==
    /\ [](\A p \in Callers : sfSent[p] <= 1 /\ Len(sfChan[p]) <= 1)
    /\ \A p \in Callers :
          (sfMode[p] = "DoChan" /\ FnReturned(sfCall[p])) ~> (sfSent[p] = 1)
    /\ [](\A k \in SfKeys : ChanBatch(k) => sfFnCalls[k] = 1)

\* Three DoChan callers of one key, two of which joined the call in flight,
\* have all received the Result.
C22_Witness ==
    \E k \in SfKeys :
        /\ ChanBatch(k)
        /\ Cardinality(CallersOf(k)) = NCallers
        /\ \A p \in CallersOf(k) : sfPc[p] = "ret" /\ sfRet[p] \in FnOutcomes

\* C23: when fn returned (nil, err), the caller that ran it and every caller
\* that joined the call return that same err with a nil value, and fn is
\* invoked only by the callers that installed a record, once each (never for
\* a caller that joined).
C23_ErrorShared ==
    /\ \A c \in Callers :
          (FnReturned(c) /\ sfRes[c].err # "nil") =>
              \A q \in Callers :
                  (sfCall[q] = c /\ sfPc[q] = "ret") =>
                      sfRet[q] = sfRes[c] /\ sfRet[q].val = "nil"
    /\ \A k \in SfKeys :
          sfFnCalls[k] = Cardinality({p \in Callers : /\ sfCall[p] = p
                                                       /\ sfKey[p] = k
                                                       /\ sfPc[p] \notin {"idle", "run"}})

\* fn failed, and the caller that ran it and two callers that joined while it
\* was executing have all returned through Do.
C23_Witness ==
    \E c \in Callers :
        /\ sfRes[c].err # "nil"
        /\ \A q \in Callers : sfCall[q] = c /\ sfPc[q] = "ret" /\ sfMode[q] = "Do"
        /\ Cardinality({q \in Callers : sfDuring[q]}) = NCallers - 1

\* C26: the call record of k is out of the map before any caller of that call
\* has read the result and returned, so no Do or DoChan that starts after a
\* caller of a finished call returned joins that call.
C26_RecordLifetime ==
    /\ \A c \in Callers : ReturnedFrom(c) => \A k \in SfKeys : sfM[k] # c
    /\ \A p \in Callers : ~sfLate[p]

\* C27: when fn panicked inside Do, the failure is in the shared result, the
\* call record is out of the map and the latch is released, so that waiters
\* return.
C27_PanicContained ==
    \A p \in Callers :
        sfPc[p] = "panic" =>
            /\ sfRes[p].err # "nil"
            /\ sfM[sfKey[p]] # p
            /\ sfWg[p] = 0

(***************************************************************************)
(* C21                                                                     *)
(***************************************************************************)
\* C21: after Server.Stop on a node that was started, whose registration is
\* in place (Register has returned nil and its goroutine is running), the
\* goroutine eventually revokes the lease and closes its client: the node's
\* key is removed from the store and no keepalive is taken any more.
C21_StopDeregisters ==
    \A n \in Nodes :
        (svPc[n] = "stopped" /\ svReg[n] = "loop") ~>
            (svReg[n] = "done" /\ svLease[n] = "revoked" /\ ~svKey[n] /\ ~svCli[n])

InputErrors == {ErrKeyEmpty, ErrKeyOrValueEmpty, ErrGroupNotFound}

\* What a call with a bad input has returned: an input error, or, when the
\* group was closed at the call's first check, the closed error.
C25_Rejected ==
    \A t \in GrThreads :
        LET th == grThread[t] IN
        th.pc = "done" =>
            /\ (th.op \in {"get", "delete"} /\ th.key = "") =>
                   /\ th.ret.err \in {ErrKeyEmpty} \cup ClosedErrors
                   /\ ~th.acted /\ ~th.fetched /\ th.picked = "none"
            /\ (th.op = "set" /\ (th.key = "" \/ th.val = "")) =>
                   /\ th.ret.err \in {ErrKeyOrValueEmpty} \cup ClosedErrors
                   /\ ~th.acted
            /\ th.op \in {"Server.Get", "Server.Set", "Server.Delete"} =>
                   /\ th.ret.err = ErrGroupNotFound
                   /\ ~th.acted /\ ~th.fetched /\ th.picked = "none"

\* A step in which a call returns an input error is the call's first check,
\* and it changes nothing but the caller's own position and result.
C25_Step ==
    \A t \in GrThreads :
        (grThread[t].pc # "done" /\ grThread'[t].pc = "done"
            /\ grThread'[t].ret.err \in InputErrors) =>
            /\ grThread[t].pc \in {"idle", "check"}
            /\ ~grThread[t].acted
            /\ UNCHANGED <<grClosed, grRegistered, grHasPeers, grCache, grCacheCloses,
                           grRegDeletes, grFlight, grFlightRes, grStats, grTasks>>
            /\ \A u \in GrThreads \ {t} : grThread'[u] = grThread[u]

\* C25: Get or Delete with an empty key, Set with an empty key or an empty
\* value (on an open group) and a server Get, Set or Delete for a name without
\* a registered group return an error at their first check, and the call
\* leaves the cache, the statistics, the load in flight and the sync tasks
\* as they were: no getter call, no peer pick, no sync launched.
C25_InputErrors == []C25_Rejected /\ [][C25_Step]_vars

\* A Set with an empty value was rejected while the group was open, and after
\* a Close a server request found no group.
C25_Witness ==
    \E t, u \in GrThreads :
        /\ grThread[t].pc = "done" /\ grThread[t].op = "set"
        /\ grThread[t].key = "k" /\ grThread[t].val = ""
        /\ grThread[t].ret.err = ErrKeyOrValueEmpty
        /\ grThread[u].pc = "done" /\ grThread[u].op = "Server.Get"
        /\ grThread[u].ret.err = ErrGroupNotFound

(***************************************************************************)
(* C28 .. C30                                                              *)
(***************************************************************************)
\* The elements linked into the list.
Linked(l) == {Order(l)[i] : i \in 1 .. Len(Order(l))}

\* What Delete(k) does in one step.
C28_Step ==
    \A k \in LruKeys :
        Delete(k) =>
            IF k \in DOMAIN lruItems
            THEN LET e == lruItems[k]
                     en == lruEnt[e]
                 IN  /\ e \notin Linked(lruLL')
                     /\ DOMAIN lruItems' = DOMAIN lruItems \ {k}
                     /\ DOMAIN lruExp' = DOMAIN lruExp \ {k}
                     /\ lruUsed' = lruUsed - (Len(k) + Len(en.value))
                     /\ en.key = k
                     /\ lruCb' = IF lruCbOn THEN <<[key |-> k, value |-> en.value]>>
                                 ELSE <<>>
                     /\ lruLast'.op = "delete" /\ lruLast'.ok
            ELSE /\ lruLast'.op = "delete" /\ ~lruLast'.ok
                 /\ lruCb' = <<>>
                 /\ UNCHANGED <<lruLL, lruItems, lruExp, lruUsed, lruEnt>>

\* C28: Delete(k) on a present key unlinks its element, removes k from
\* c.items and c.expiredTime, lowers usedBytes by len(k) + value.Len(), calls
\* onEvicted once with k and the current value (if configured) and returns
\* true; on an absent key it returns false, calls nothing and leaves the
\* list, both maps and usedBytes as they were.
C28_Delete == [][C28_Step]_vars

\* A Delete of a present key returned true and called onEvicted once, with
\* another key left in the store.
C28_Witness ==
    /\ lruLast.op = "delete" /\ lruLast.ok
    /\ Len(lruCb) = 1 /\ lruCb[1].key = lruLast.key
    /\ DOMAIN lruItems # {}
    /\ lruUsed > 0

\* The onEvicted calls of the last operation are one call per key of ks, each
\* with the key's entry as it was before the operation.
CalledOncePerKey(ks) ==
    /\ Len(lruCb') = Cardinality(ks)
    /\ \A k \in ks :
          Cardinality({i \in 1 .. Len(lruCb') :
                          lruCb'[i] = [key |-> k,
                                       value |-> lruEnt[lruItems[k]].value]}) = 1

\* What Clear does in one step, and what a Set or Get does on the store that
\* Clear has just left.
C29_Step ==
    /\ \A order \in RangeOrders(DOMAIN lruItems) :
          Clear(order) =>
              /\ IF lruCbOn THEN CalledOncePerKey(DOMAIN lruItems) ELSE lruCb' = <<>>
              /\ Order(lruLL') = <<>>
              /\ lruLL'.next[Root] = Root /\ lruLL'.prev[Root] = Root
              /\ lruLL'.len = 0
              /\ lruItems' = EmptyMap
              /\ lruExp' = EmptyMap
              /\ lruUsed' = 0
    /\ (lruLast.op = "clear" /\ lruLast'.op = "set") =>
          LET k == lruLast'.key
              v == lruLast'.val
          IN  (Len(k) + Len(v) <= lruMax) =>
                  /\ lruLast'.ok
                  /\ DOMAIN lruItems' = {k}
                  /\ lruEnt'[lruItems'[k]] = [key |-> k, value |-> v]
                  /\ Order(lruLL') = <<lruItems'[k]>>
                  /\ lruLL'.len = 1
                  /\ lruUsed' = Len(k) + Len(v)
    /\ (lruLast.op = "clear" /\ lruLast'.op = "get") =>
          (~lruLast'.ok /\ lruLast'.val = NilValue)

\* C29: Clear calls onEvicted once for each entry present (when configured)
\* and leaves the list empty (Len() = 0), c.items and c.expiredTime empty and
\* usedBytes 0; the store it leaves takes a Set that follows as a new store
\* would, and answers a Get that follows with a miss.
C29_Clear == [][C29_Step]_vars

\* Clear has just emptied a store of two entries with two onEvicted calls.
C29_Witness ==
    /\ lruLast.op = "clear"
    /\ Len(lruCb) = 2 /\ lruCb[1].key # lruCb[2].key
    /\ lruUsed = 0 /\ lruItems = EmptyMap

\* What one run of deleteExpired does: of the keys the range over
\* c.expiredTime produced before the scan limit, those whose time has passed
\* are removed as Delete removes them, and nothing else changes.
C30_Step ==
    \A order \in RangeOrders(DOMAIN lruExp) :
        ReaperTick(order) =>
            LET examined == {order[i] : i \in {j \in 1 .. Len(order) : j <= maxScan}}
                expired == {k \in examined : lruNow > lruExp[k]}
            IN  /\ Cardinality(examined) <= maxScan
                /\ expired \subseteq DOMAIN lruItems
                /\ DOMAIN lruItems' = DOMAIN lruItems \ expired
                /\ DOMAIN lruExp' = DOMAIN lruExp \ expired
                /\ \A k \in DOMAIN lruItems' :
                      /\ lruItems'[k] = lruItems[k]
                      /\ lruEnt'[lruItems'[k]] = lruEnt[lruItems[k]]
                /\ \A k \in DOMAIN lruExp' : lruExp'[k] = lruExp[k]
                /\ lruUsed' = lruUsed - SumSizes(expired)
                /\ \A k \in expired : lruItems[k] \notin Linked(lruLL')
                /\ IF lruCbOn THEN CalledOncePerKey(expired) ELSE lruCb' = <<>>

C31_CloseStopsReaper ==
    /\ [](lruStopCloses <= 1 /\ lruLateReaps = 0)
    /\ (CloseHasReturned ~> lruLoop = "returned")

(***************************************************************************)
(* C32                                                                     *)
(***************************************************************************)

\* C32: a failure of the registration with the coordination store (the
\* client, the lease grant, the put or the keepalive) while the server
\* starts is fatal: Start has returned the failure, and the server is not
\* serving with a registration that failed.
C32_StartupErrorsFatal ==
    \A n \in Nodes : svReg[n] = "failed" => svPc[n] = "failed"

(***************************************************************************)
(* C33                                                                     *)
(***************************************************************************)

\* The request syncToPeers sends for the task t to the peer it picked.
SyncRpc(t, peer) ==
    [from |-> t.node, to |-> peer, op |-> t.op, key |-> t.key, value |-> t.value,
     origin |-> t.origin]

\* C33: a Set or Delete called by the application launches at most one
\* sync and sends nothing itself.  A sync sends at most one request, to
\* the peer PickPeer(key) returns, and none when PickPeer reports no owner
\* or this node; it ends there and leaves every cache alone.  A request that
\* fails is not sent again and changes no cache and no recorded outcome.
C33_Step ==
    /\ \A t \in clTasks : syncToPeers(t) =>
          LET pick == PickPeer(t.node, t.key) IN
          /\ clCache' = clCache
          /\ clTasks' = clTasks \ {t}
          /\ \A o \in ClientOps \ {t.origin} : clSent'[o] = clSent[o]
          /\ IF ~pick.ok \/ pick.self
             THEN clRpcs' = clRpcs /\ clSent' = clSent
             ELSE /\ clRpcs' = clRpcs \cup {SyncRpc(t, pick.peer)}
                  /\ pick.peer \in clClients[t.node] \ {t.node}
                  /\ clSent'[t.origin] =
                        Append(clSent[t.origin],
                               [from |-> t.node, to |-> pick.peer, op |-> t.op])
    /\ \A m \in clRpcs : RpcFails(m) =>
          /\ clCache' = clCache
          /\ clTasks' = clTasks
          /\ clRpcs' = clRpcs \ {m}
          /\ clSent' = clSent
          /\ clSynced' = clSynced
    /\ (\/ \E n \in Nodes, k \in ClKeys, v \in ClValues : ClientSet(n, k, v)
        \/ \E n \in Nodes, k \in ClKeys : ClientDelete(n, k)) =>
          /\ Cardinality(clTasks' \ clTasks) <= 1
          /\ clRpcs' = clRpcs
          /\ clSent' = clSent

C33_SyncUnicast == [][C33_Step]_vars

\* A Set on a node whose sync sent its one request to the owner, and the
\* request failed: the owner holds nothing, the node still holds the value.
C33_Witness ==
    \E o \in ClientOps :
        /\ clOrigin[o].op = "set"
        /\ clSynced[o] = "sent"
        /\ Len(clSent[o]) = 1
        /\ clSent[o][1].from = clOrigin[o].node
        /\ clRpcs = {} /\ clTasks = {}
        /\ clHosted[clSent[o][1].to]
        /\ clCache[clSent[o][1].to][clOrigin[o].key] = Absent
        /\ clCache[clOrigin[o].node][clOrigin[o].key] # Absent

(***************************************************************************)
(* C34                                                                     *)
(***************************************************************************)

\* C34: at no moment at which g.closed is 1 does a step of any operation
\* add to, delete from or clear the group's cache or launch a sync, whether
\* or not the operation passed its closed check before Close ran.
C34_NoMutationWhileClosed ==
    [][grClosed = 1 => grCache' = grCache /\ grTasks' <= grTasks]_vars

(***************************************************************************)
(* C35, C36                                                                *)
(***************************************************************************)

\* C35: Close unregisters only the group it is called on: a step of
\* g.Close() leaves every registry entry that points at another group as
\* it is, so that GetGroup(n) still returns the group that replaced g.
C35_Step ==
    \A t \in RegThreads :
        regThread[t].op = "close" /\ RegStep(t) =>
            \A n \in Names :
                GetGroup(n) # regThread[t].g => regGroups'[n] = regGroups[n]

C35_CloseUnregistersSelf == [][C35_Step]_vars

\* C36: no goroutine waits for groupsMu while it holds it, and every call
\* of DestroyGroup and DestroyAllGroups returns: DestroyGroup with true
\* when it found a group, which is then closed.
C36_DestroyTerminates ==
    /\ [](\A t \in RegThreads : ~(regThread[t].pc = "lock" /\ regMu = t))
    /\ \A t \in RegThreads :
          (regThread[t].op \in {"destroy", "destroyall"} /\ regThread[t].pc # "idle")
             ~> (/\ regThread[t].pc = "done"
                 /\ regThread[t].g # NoGroup => regClosed[regThread[t].g] = 1
                 /\ regThread[t].op = "destroy" /\ regThread[t].g # NoGroup
                       => regThread[t].ret = "true")

(***************************************************************************)
(* C37                                                                     *)
(***************************************************************************)

\* C37: the Delete that a Get launched for an expired key removes no entry
\* that was set afresh in the meantime: when it runs and finds an entry
\* for the key whose time has not passed (such an entry can only have been
\* written after the Get), it leaves the entry and its value in the store,
\* so that a following Get returns them.
C37_Step ==
    \A k \in LruKeys :
        (/\ AsyncDelete(k)
         /\ k \in DOMAIN lruItems
         /\ ~(k \in DOMAIN lruExp /\ After(lruNow, lruExp[k])))
        => (/\ k \in DOMAIN lruItems'
            /\ lruEnt'[lruItems'[k]] = lruEnt[lruItems[k]])

C37_DeferredDeleteSafe == [][C37_Step]_vars

(***************************************************************************)
(* C38                                                                     *)
(***************************************************************************)

\* C38: when a node executed Set(k, v1) and then, after it had returned,
\* Set(k, v2) for a key owned by another node, and both syncs have sent
\* their request and both requests have been served, the owner's cache
\* holds for k what the originator's cache holds: its last write, v2.
C38_WriteSyncOrder ==
    \A n \in Nodes, k \in ClKeys :
        (/\ clOrigin[1] = [op |-> "set", node |-> n, key |-> k]
         /\ clOrigin[2] = [op |-> "set", node |-> n, key |-> k]
         /\ clSynced[1] = "sent" /\ clSynced[2] = "sent"
         /\ clTasks = {} /\ clRpcs = {})
        => clCache[PickPeer(n, k).peer][k] = clCache[n][k]

(***************************************************************************)
(* C39                                                                     *)
(***************************************************************************)

\* C39: a load that completes does not overwrite a completed write.  When
\* the Get that led or joined the load comes back from it and the cache
\* holds for its key a value that a Set wrote (the Get missed, so that Set
\* completed after the Get's probe), the cache holds the same value after
\* the step.
C39_Step ==
    \A t \in GrThreads :
        LoadPost(t) /\ grCache[grThread[t].key] \in GrValues
            => grCache'[grThread[t].key] = grCache[grThread[t].key]

C39_WriteNotOverwritten == [][C39_Step]_vars

(***************************************************************************)
(* C40                                                                     *)
(***************************************************************************)

\* C40: in a cluster of two or more nodes with stable membership, every
\* Group.Get on a node that knows a peer, called by the application or by
\* the node's Server.Get, returns: a value (a hit or the getter's bytes) or
\* an error.
C40_ClusterGetTerminates ==
    (rdLast.out # "none" /\ clRing[rdLast.node] # {})
        => rdLast.out \in {"hit", "getter", "getterError", "keyempty", "nogroup"}

====
